---- MODULE Spec2Model ----
(***************************************************************************)
(* Model of xe::Emulator (src/xenia/emulator.cc): the run/pause/resume    *)
(* lifecycle, the snapshot engine (SaveToFile / RestoreFromFile) and       *)
(* WaitUntilExit.                                                          *)
(*                                                                         *)
(* The emulator object is one record, emu; every method of the class is a  *)
(* pure operator from an emulator record to the emulator record it leaves  *)
(* behind, so that a method that calls another (SaveToFile calls Pause and *)
(* Resume) is the composition of the operators.  Every call a method makes *)
(* on a collaborator is appended to emu.trace, the call trace of the       *)
(* running API call.                                                       *)
(*                                                                         *)
(* The second half is xe::kernel::UserModule                               *)
(* (src/xenia/kernel/user_module.cc): the load state machine of a module   *)
(* (SpecModule), its load from a file with the search for a patch          *)
(* (SpecFile), and the lookups in the header table (SpecLookup).           *)
(*                                                                         *)
(* SpecLaunch is the launch of a host path (LaunchPath and its three       *)
(* variants, FindLaunchModule); SpecRace is Pause, Resume and              *)
(* RestoreFromFile called by threads that run at once, one step of a       *)
(* thread at a time, with the global critical region.                      *)
(***************************************************************************)
EXTENDS Integers, Sequences, FiniteSets, TLC

(***************************************************************************)
(* Bounds                                                                  *)
(***************************************************************************)
NumThreads == 3
MaxTitle == 1
MaxSuspend == 2
MaxTitleThreads == 1
HistLen == 3
MaxPc == 2
MaxEntry == 2
MaxStack == 1
MaxCalls == 4
MaxKey == 2
MaxHeaders == 2
MaxResources == 2
MaxBeyond == 1
MaxPackages == 2
MaxLoads == 2
MaxDevices == 2
MaxGuestLocks == 1

ThreadIds == 1..NumThreads
TitleIds == 0..MaxTitle

\* "not a guest thread": XThread::IsInThread() is false, current_thread = nullptr
NoThread == 0

\* XThread::can_debugger_suspend(), fixed when the thread object is made:
\* true of the title's guest threads, false of the host-internal XThreads the
\* kernel modules run.  The last id is the host-internal one.
can_debugger_suspend(t) == t < NumThreads
GuestIds == {t \in ThreadIds : can_debugger_suspend(t)}

\* object_ref<XThread>: the object's id and whether the object has left the
\* object table (a reference keeps a terminated thread object alive): "no",
\* or how it left: "exited" (it had ended before it was taken out) or
\* "killed" (it was terminated while it ran).
NullRef == [tid |-> NoThread, gone |-> "no"]
Ref(t) == [tid |-> t, gone |-> "no"]

(***************************************************************************)
(* X_STATUS values (xenia/xbox.h), kept symbolic: the 32-bit codes         *)
(* 0xC0000001.. do not fit TLC's integers.  X_STATUS_SUCCESS is 0, so the  *)
(* C++ conversion of `false` to X_STATUS is X_STATUS_SUCCESS.              *)
(***************************************************************************)
X_STATUS_SUCCESS == "X_STATUS_SUCCESS"
X_STATUS_UNSUCCESSFUL == "X_STATUS_UNSUCCESSFUL"
X_STATUS_NOT_IMPLEMENTED == "X_STATUS_NOT_IMPLEMENTED"
X_STATUS_NOT_FOUND == "X_STATUS_NOT_FOUND"
X_STATUS_NO_SUCH_FILE == "X_STATUS_NO_SUCH_FILE"
X_STATUS_PENDING == "X_STATUS_PENDING"

StatusOfBool(b) == IF b THEN "X_STATUS_1" ELSE X_STATUS_SUCCESS

(***************************************************************************)
(* std::optional<uint32_t>                                                 *)
(***************************************************************************)
NullOpt == [has |-> FALSE, val |-> 0]
Some(v) == [has |-> TRUE, val |-> v]
OptTitles == {NullOpt} \cup {Some(v) : v \in TitleIds}

(***************************************************************************)
(* The five leaf subsystems of the snapshot, in the order of the code.     *)
(***************************************************************************)
SubSystems == <<"processor", "graphics", "audio", "kernel", "memory">>
SubNames == {SubSystems[i] : i \in 1..Len(SubSystems)}
Live == "live"
Restored == "restored"

\* emu .. conc: the emulator and its host threads.  mod, vfs: a UserModule
\* and the virtual file system it is loaded from.  call: one call of a
\* function of its arguments only, the arguments and the results.  race:
\* the threads that are in Pause and RestoreFromFile at once.
VARIABLES emu, disk, hist, conc, mod, vfs, call, race

vars == <<emu, disk, hist, conc, mod, vfs, call, race>>

\* what a call of the emulator's API leaves alone
loader == <<mod, vfs, call, race>>

(***************************************************************************)
(* Call trace helpers                                                      *)
(***************************************************************************)
Ev(name, arg) == <<name, arg>>

Log(e, name, arg) == [e EXCEPT !.trace = Append(@, Ev(name, arg))]

RECURSIVE CountEv(_, _)
CountEv(tr, ev) ==
  IF tr = <<>> THEN 0
  ELSE (IF Head(tr) = ev THEN 1 ELSE 0) + CountEv(Tail(tr), ev)

RECURSIVE CountName(_, _)
CountName(tr, name) ==
  IF tr = <<>> THEN 0
  ELSE (IF Head(tr)[1] = name THEN 1 ELSE 0) + CountName(Tail(tr), name)

\* A null pointer is dereferenced: the host faults and the process dies.
Crash(e, what) == [Log(e, "nullderef " \o what, 0) EXCEPT !.crashed = TRUE]

(***************************************************************************)
(* Emulator::Emulator                                                      *)
(***************************************************************************)
Constructed ==
  [ setup_result     |-> "none",
    memory_          |-> FALSE,
    processor_       |-> FALSE,
    audio_system_    |-> FALSE,
    graphics_system_ |-> FALSE,
    input_system_    |-> FALSE,
    kernel_state_    |-> FALSE,
    title_id_        |-> NullOpt,
    title_name_      |-> "",
    title_version_   |-> "",
    main_thread_     |-> NullRef,
    paused_          |-> FALSE,
    restoring_       |-> FALSE,
    restore_fence_   |-> FALSE,
    \* kernel object table: the XThread objects and their flags
    table            |-> {},
    running          |-> [t \in ThreadIds |-> FALSE],
    susp             |-> [t \in ThreadIds |-> 0],
    main_flag        |-> NoThread,
    \* the threads that are in ExceptionCallback, at its last Suspend
    faulted          |-> {},
    \* subsystems' own state
    gfx_paused       |-> FALSE,
    aud_paused       |-> FALSE,
    sub              |-> [s \in SubNames |-> Live],
    crashed          |-> FALSE,
    ret              |-> "none",
    \* the ByteStream of the running SaveToFile / RestoreFromFile
    stream           |-> [buf |-> <<>>, off |-> 0],
    trace            |-> <<>> ]

Ret(e, r) == [e EXCEPT !.ret = r]

(***************************************************************************)
(* Emulator::Setup.  in is the record of what the collaborators answer:    *)
(* memInit, procSetup (bool results), audioFactory ("none": no factory     *)
(* given, "null": the factory returns nullptr, "ok"), gfxFactory ("null",  *)
(* "ok"), inputSetup, gfxSetup, audioSetup (X_STATUS results).             *)
(***************************************************************************)
SetupInputs ==
  [ memInit : BOOLEAN, procSetup : BOOLEAN,
    audioFactory : {"none", "null", "ok"}, gfxFactory : {"null", "ok"},
    inputSetup : {X_STATUS_SUCCESS, X_STATUS_UNSUCCESSFUL},
    gfxSetup : {X_STATUS_SUCCESS, X_STATUS_UNSUCCESSFUL},
    audioSetup : {X_STATUS_SUCCESS, X_STATUS_UNSUCCESSFUL} ]

Setup(e, in) ==
  LET e1 == Log([e EXCEPT !.memory_ = TRUE], "memory.Initialize", 0)
      e2 == Log([e1 EXCEPT !.processor_ = TRUE], "processor.Setup", 0)
      e3 == IF in.audioFactory = "none" THEN e2
            ELSE Log([e2 EXCEPT !.audio_system_ = (in.audioFactory = "ok")],
                     "audio_system_factory", 0)
      e4 == Log([e3 EXCEPT !.graphics_system_ = (in.gfxFactory = "ok")],
                "graphics_system_factory", 0)
      e5 == Log([e4 EXCEPT !.input_system_ = TRUE], "input_system.Setup", 0)
      e6 == Log([e5 EXCEPT !.kernel_state_ = TRUE], "graphics_system.Setup", 0)
      e7 == IF e6.audio_system_ THEN Log(e6, "audio_system.Setup", 0) ELSE e6
  IN  IF ~in.memInit THEN Ret(e1, StatusOfBool(FALSE))
      ELSE IF ~in.procSetup THEN Ret(e2, X_STATUS_UNSUCCESSFUL)
      ELSE IF in.audioFactory = "null" THEN Ret(e3, X_STATUS_NOT_IMPLEMENTED)
      ELSE IF in.gfxFactory = "null" THEN Ret(e4, X_STATUS_NOT_IMPLEMENTED)
      ELSE IF in.inputSetup # X_STATUS_SUCCESS THEN Ret(e5, in.inputSetup)
      ELSE IF in.gfxSetup # X_STATUS_SUCCESS THEN Ret(e6, in.gfxSetup)
      ELSE IF e6.audio_system_ /\ in.audioSetup # X_STATUS_SUCCESS
           THEN Ret(e7, in.audioSetup)
      ELSE Ret(Log(e7, "LoadKernelModules", 0),
               IF e6.audio_system_ THEN in.audioSetup ELSE in.gfxSetup)

(***************************************************************************)
(* Host thread primitives xe::threading::Thread::Suspend / Resume: a       *)
(* suspend count per host thread; resuming a thread that is not suspended  *)
(* does nothing.                                                           *)
(***************************************************************************)
HostSuspend(e, t) ==
  [Log(e, "Suspend", t) EXCEPT !.susp[t] = @ + 1]

HostResume(e, t) ==
  [Log(e, "Resume", t) EXCEPT !.susp[t] = IF @ > 0 THEN @ - 1 ELSE 0]

(***************************************************************************)
(* graphics_system_->Pause() etc.: calls through a unique_ptr that may be  *)
(* null.                                                                   *)
(***************************************************************************)
GraphicsPause(e) ==
  IF e.crashed THEN e
  ELSE IF ~e.graphics_system_ THEN Crash(e, "graphics_system_")
  ELSE [Log(e, "graphics.Pause", 0) EXCEPT !.gfx_paused = TRUE]

AudioPause(e) ==
  IF e.crashed THEN e
  ELSE IF ~e.audio_system_ THEN Crash(e, "audio_system_")
  ELSE [Log(e, "audio.Pause", 0) EXCEPT !.aud_paused = TRUE]

GraphicsResume(e) ==
  IF e.crashed THEN e
  ELSE IF ~e.graphics_system_ THEN Crash(e, "graphics_system_")
  ELSE [Log(e, "graphics.Resume", 0) EXCEPT !.gfx_paused = FALSE]

AudioResume(e) ==
  IF e.crashed THEN e
  ELSE IF ~e.audio_system_ THEN Crash(e, "audio_system_")
  ELSE [Log(e, "audio.Resume", 0) EXCEPT !.aud_paused = FALSE]

(***************************************************************************)
(* Emulator::Pause: the loop over the XThread objects, in id order.        *)
(***************************************************************************)
PauseSkips_NoSelfCheck(e, t, current_thread) == ~can_debugger_suspend(t)

PauseSkips(e, t, current_thread) ==
  t = current_thread \/ ~can_debugger_suspend(t)

RECURSIVE PauseLoop(_, _, _)
PauseLoop(e, t, current_thread) ==
  IF t > NumThreads THEN e
  ELSE IF t \notin e.table THEN PauseLoop(e, t + 1, current_thread)
  ELSE IF PauseSkips(e, t, current_thread)
       THEN PauseLoop(e, t + 1, current_thread)
  ELSE IF e.running[t]
       THEN PauseLoop(HostSuspend(e, t), t + 1, current_thread)
  ELSE PauseLoop(e, t + 1, current_thread)

\* a lock that is not released at scope exit
Release_Never(e) == e

\* global_critical_region::AcquireDirect() and the unlock at scope exit
Acquire(e) == IF e.crashed THEN e ELSE Log(e, "lock.acquire", 0)
Release(e) == IF e.crashed THEN e ELSE Log(e, "lock.release", 0)

PauseThreads(e, current_thread) ==
  IF e.crashed THEN e
  ELSE IF ~e.kernel_state_ THEN Crash(e, "kernel_state_")
  ELSE Release(PauseLoop(Acquire(e), 1, current_thread))

Pause_NoPausedCheck(e, current_thread) ==
  IF e.crashed THEN e
  ELSE PauseThreads(
         AudioPause(GraphicsPause([e EXCEPT !.paused_ = TRUE])),
         current_thread)

Pause(e, current_thread) ==
  IF e.crashed THEN e
  ELSE IF e.paused_ THEN e
  ELSE PauseThreads(
         AudioPause(GraphicsPause([e EXCEPT !.paused_ = TRUE])),
         current_thread)

(***************************************************************************)
(* Emulator::Resume                                                        *)
(***************************************************************************)
RECURSIVE ResumeLoop(_, _)
ResumeLoop(e, t) ==
  IF t > NumThreads THEN e
  ELSE IF t \notin e.table THEN ResumeLoop(e, t + 1)
  ELSE IF ~can_debugger_suspend(t) THEN ResumeLoop(e, t + 1)
  ELSE IF e.running[t] THEN ResumeLoop(HostResume(e, t), t + 1)
  ELSE ResumeLoop(e, t + 1)

ResumeThreads(e) ==
  IF e.crashed THEN e
  ELSE IF ~e.kernel_state_ THEN Crash(e, "kernel_state_")
  ELSE ResumeLoop(e, 1)

Resume(e) ==
  IF e.crashed THEN e
  ELSE IF ~e.paused_ THEN e
  ELSE ResumeThreads(
         AudioResume(GraphicsResume([e EXCEPT !.paused_ = FALSE])))

(***************************************************************************)
(* ByteStream (xenia/base/byte_stream.h): a buffer and an offset; Write<T> *)
(* and Read<T> copy sizeof(T) bytes in host (little-endian) order and      *)
(* advance the offset.                                                     *)
(***************************************************************************)
U32Bytes(v) ==
  << v % 256, (v \div 256) % 256, (v \div 65536) % 256,
     (v \div 16777216) % 256 >>

U32Of(b) == b[1] + 256 * b[2] + 65536 * b[3] + 16777216 * b[4]

ByteAt(st, i) == IF i >= 1 /\ i <= Len(st.buf) THEN st.buf[i] ELSE 0

StreamWrite(st, bytes) ==
  [buf |-> SubSeq(st.buf, 1, st.off) \o bytes, off |-> st.off + Len(bytes)]

WriteU32(e, v) == [e EXCEPT !.stream = StreamWrite(@, U32Bytes(v))]
WriteBool(e, b) == [e EXCEPT !.stream = StreamWrite(@, <<IF b THEN 1 ELSE 0>>)]
WriteBytes(e, bytes) == [e EXCEPT !.stream = StreamWrite(@, bytes)]

PeekU32(e) == U32Of([i \in 1..4 |-> ByteAt(e.stream, e.stream.off + i)])
PeekBool(e) == ByteAt(e.stream, e.stream.off + 1) # 0
PeekByte(e, k) == ByteAt(e.stream, e.stream.off + k)
Advance(e, n) == [e EXCEPT !.stream.off = @ + n]

\* the multi-character literal 'XSAV' = 0x58534156
XSAV == 1481851222

(***************************************************************************)
(* The leaf subsystems' Save / Restore.  Each subsystem appends a blob     *)
(* that starts with its own tag byte, and its Restore rejects a stream     *)
(* that does not start with that tag; a successful Restore consumes        *)
(* exactly the blob.  The kernel blob carries, for every guest thread id,  *)
(* whether the thread exists, is flagged main and is running.              *)
(* emu.sub[s] tells whether subsystem s holds the state it had when the    *)
(* machine last ran (Live) or the state a snapshot gave it (Restored).     *)
(***************************************************************************)
SubIndex(s) == CHOOSE i \in 1..Len(SubSystems) : SubSystems[i] = s

SubTag(s) == 160 + SubIndex(s)

SubPresent(e, s) ==
  CASE s = "processor" -> e.processor_
    [] s = "graphics"  -> e.graphics_system_
    [] s = "audio"     -> e.audio_system_
    [] s = "kernel"    -> e.kernel_state_
    [] s = "memory"    -> e.memory_

ThreadByte(e, t) ==
  IF t \notin e.table THEN 0
  ELSE 1 + (IF e.main_flag = t THEN 2 ELSE 0)
         + (IF e.running[t] THEN 4 ELSE 0)

RECURSIVE ThreadBytes(_, _)
ThreadBytes(e, t) ==
  IF ~can_debugger_suspend(t) THEN <<>>
  ELSE <<ThreadByte(e, t)>> \o ThreadBytes(e, t + 1)

SubBlob(e, s) ==
  <<SubTag(s)>> \o (IF s = "kernel" THEN ThreadBytes(e, 1) ELSE <<>>)

SubSave(e, s) ==
  IF e.crashed THEN e
  ELSE IF ~SubPresent(e, s) THEN Crash(e, s)
  ELSE WriteBytes(Log(e, s \o ".Save", e.stream.off), SubBlob(e, s))

\* KernelState::Restore: the guest threads of the snapshot are made again.
RECURSIVE RestoreThreads(_, _, _)
RestoreThreads(e, t, createSuspended) ==
  IF ~can_debugger_suspend(t) THEN e
  ELSE LET b == PeekByte(e, 1 + t)
           e1 == IF b = 0 THEN e
                 ELSE [e EXCEPT
                         !.table = @ \cup {t},
                         !.running[t] = ((b - 1) \div 4) % 2 = 1,
                         !.susp[t] = IF createSuspended THEN 1 ELSE 0,
                         !.main_flag =
                            IF ((b - 1) \div 2) % 2 = 1 THEN t ELSE @]
       IN RestoreThreads(e1, t + 1, createSuspended)

SubApply(e, s, createSuspended) ==
  LET e1 == [e EXCEPT !.sub[s] = Restored]
  IN IF s = "kernel"
     THEN Advance(RestoreThreads(e1, 1, createSuspended),
                  1 + Cardinality(GuestIds))
     ELSE Advance(e1, 1)

\* The result of subsystem s's Restore: <<ok, emulator afterwards>>.
SubRestore(e, s, in) ==
  IF ~SubPresent(e, s) THEN <<FALSE, Crash(e, s)>>
  ELSE LET e1 == Log(e, s \o ".Restore", e.stream.off)
       IN IF in.fail = s \/ PeekByte(e1, 1) # SubTag(s)
          THEN <<FALSE, Log(e1, s \o ".Restore failed", 0)>>
          ELSE <<TRUE, SubApply(e1, s, in.createSuspended)>>

(***************************************************************************)
(* KernelState::TerminateTitle: the title's guest threads are terminated   *)
(* and leave the object table; host-internal threads stay.                 *)
(***************************************************************************)
KernelTerminateTitle(e) ==
  IF e.crashed THEN e
  ELSE IF ~e.kernel_state_ THEN Crash(e, "kernel_state_")
  ELSE [Log(e, "kernel.TerminateTitle", 0) EXCEPT
          !.table = @ \ GuestIds,
          !.running = [t \in ThreadIds |->
                         IF can_debugger_suspend(t) THEN FALSE ELSE @[t]],
          !.susp = [t \in ThreadIds |->
                      IF can_debugger_suspend(t) THEN 0 ELSE @[t]],
          !.main_flag = NoThread,
          !.faulted = @ \ GuestIds,
          !.main_thread_.gone =
              IF @ = "no" /\ e.main_thread_.tid \in e.table \cap GuestIds
              THEN (IF e.running[e.main_thread_.tid] THEN "killed"
                    ELSE "exited")
              ELSE @]

(***************************************************************************)
(* Emulator::SaveToFile.  openOK: MappedMemory::Open gave a mapping.       *)
(***************************************************************************)
\* a Save that writes the graphics blob first
SaveOrder_GraphicsFirst ==
  <<"graphics", "processor", "audio", "kernel", "memory">>

SaveOrder == <<"processor", "graphics", "audio", "kernel", "memory">>

RECURSIVE SaveSubs(_, _)
SaveSubs(e, i) ==
  IF i > Len(SaveOrder) THEN e
  ELSE SaveSubs(SubSave(e, SaveOrder[i]), i + 1)

WriteHeader(e) ==
  LET e1 == WriteU32([e EXCEPT !.stream = [buf |-> <<>>, off |-> 0]], XSAV)
      e2 == WriteBool(e1, e.title_id_.has)
  IN IF e.title_id_.has THEN WriteU32(e2, e.title_id_.val) ELSE e2

WriteSnapshot(e) == SaveSubs(WriteHeader(e), 1)

SaveToFile(e, current_thread, openOK) ==
  LET e1 == Pause(e, current_thread)
      e2 == WriteSnapshot(e1)
  IN IF e1.crashed THEN e1
     ELSE IF ~openOK THEN Ret(e1, "false")
     ELSE IF e2.crashed THEN e2
     ELSE Ret(Resume(Log(e2, "map.Close", e2.stream.off)), "true")

(***************************************************************************)
(* Emulator::RestoreFromFile.  file: the bytes at the path, in: which      *)
(* subsystem (if any) reports failure and how the host threads of the      *)
(* restored guest threads are created.                                     *)
(***************************************************************************)
RestoreInputs ==
  [fail : SubNames \cup {"none"}, createSuspended : BOOLEAN]

RestoreOrder == <<"processor", "graphics", "audio", "kernel", "memory">>

\* title_id_.has_value() != title_id.has_value() ||
\* title_id_.value() != title_id.value(); std::optional::value() throws
\* std::bad_optional_access on an empty optional.
TitleCheck(cur, snap) ==
  IF cur.has # snap.has THEN "reject"
  ELSE IF ~cur.has THEN "throw"
  ELSE IF ~snap.has THEN "throw"
  ELSE IF cur.val # snap.val THEN "reject"
  ELSE "pass"

ReadTitle(e) ==
  IF ~PeekBool(e) THEN <<NullOpt, Advance(e, 1)>>
  ELSE <<Some(PeekU32(Advance(e, 1))), Advance(e, 5)>>

\* a Restore that goes on to the next subsystem after a failure
RECURSIVE RestoreSubs_KeepsGoing(_, _, _)
RestoreSubs_KeepsGoing(e, i, in) ==
  IF i > Len(RestoreOrder) THEN <<TRUE, e>>
  ELSE LET r == SubRestore(e, RestoreOrder[i], in)
       IN IF r[2].crashed THEN <<FALSE, r[2]>>
          ELSE LET rest == RestoreSubs_KeepsGoing(r[2], i + 1, in)
               IN <<r[1] /\ rest[1], rest[2]>>

RECURSIVE RestoreSubs(_, _, _)
RestoreSubs(e, i, in) ==
  IF i > Len(RestoreOrder) THEN <<TRUE, e>>
  ELSE LET r == SubRestore(e, RestoreOrder[i], in)
       IN IF r[2].crashed \/ ~r[1] THEN <<FALSE, r[2]>>
          ELSE RestoreSubs(r[2], i + 1, in)

\* a Restore that keeps the main thread reference it had
UpdateMainThread_Keep(e) == e

UpdateMainThread(e) ==
  IF e.main_flag \in e.table
  THEN [e EXCEPT !.main_thread_ = Ref(e.main_flag)]
  ELSE e

\* restore_fence_.Signal()
FenceSignal(e) == [Log(e, "restore_fence.Signal", 0)
                     EXCEPT !.restore_fence_ = TRUE]

\* line 449
RestoreMark(e) == [e EXCEPT !.restoring_ = TRUE]

CheckCode(c) == CASE c = "pass" -> 0 [] c = "reject" -> 1 [] c = "throw" -> 2

\* lines 455-494: returns with ret = "false", or goes on (ret unchanged)
RestoreLoad(e, file, in) ==
  LET e1 == [Acquire(e) EXCEPT !.stream = [buf |-> file, off |-> 0]]
      marker == PeekU32(e1)
      t == ReadTitle(Advance(e1, 4))
      check == TitleCheck(e.title_id_, t[1])
      e2 == Log(t[2], "title.check", CheckCode(check))
      r == RestoreSubs(e2, 1, in)
  IN IF e.crashed THEN e
     ELSE IF marker # XSAV
          THEN Ret(Release(Log(e1, "marker.mismatch", 0)), "false")
     ELSE IF check = "throw"
          THEN [Log(e2, "throw bad_optional_access", 0)
                  EXCEPT !.crashed = TRUE]
     ELSE IF check = "reject" THEN Ret(Release(e2), "false")
     ELSE IF r[2].crashed THEN r[2]
     ELSE IF ~r[1] THEN Ret(Release(r[2]), "false")
     ELSE r[2]

\* lines 496-506
RestoreResolve(e) == Resume(UpdateMainThread(e))

\* lines 509-511
RestoreReturn(e) ==
  IF e.crashed THEN e
  ELSE Ret(Release([e EXCEPT !.restoring_ = FALSE]), "true")

RestoreFromFile(e, current_thread, openOK, file, in) ==
  LET e1 == RestoreLoad(
              KernelTerminateTitle(Pause(RestoreMark(e), current_thread)),
              file, in)
      e2 == RestoreResolve(e1)
  IN IF ~openOK THEN Ret(e, "false")
     ELSE IF e1.crashed \/ e1.ret = "false" THEN e1
     ELSE IF e2.crashed THEN e2
     ELSE RestoreReturn(FenceSignal(e2))

(***************************************************************************)
(* Emulator::CompleteLaunch.  in: moduleLoads (LoadUserModule gave a       *)
(* module), info (the execution-info header: absent, or its title id),     *)
(* threadLaunch (LaunchModule gave a thread), tid (the id of the thread    *)
(* LaunchModule makes).                                                    *)
(***************************************************************************)
LaunchInputs ==
  [moduleLoads : BOOLEAN, info : OptTitles, version : BOOLEAN,
   threadLaunch : BOOLEAN]

\* the id of the next thread object the kernel makes
NewThreadId(e) ==
  IF GuestIds \ e.table = {} THEN NoThread
  ELSE CHOOSE t \in GuestIds \ e.table : \A u \in GuestIds \ e.table : t <= u

\* KernelState::LaunchModule: makes and starts the main XThread.
LaunchModule(e, t) ==
  [Log(e, "kernel.LaunchModule", t) EXCEPT
     !.table = @ \cup {t}, !.running[t] = TRUE, !.susp[t] = 0,
     !.main_flag = t]

\* a title id taken from the header as it is
BoundTitle_AsIs(info) == info

\* lines 695-699: the title id CompleteLaunch binds
BoundTitle(info) == IF ~info.has THEN Some(0) ELSE info

\* a notification that is sent twice
OnLaunch_Twice(e) ==
  Log(Log(Log(e, "on_launch", e.title_id_.val),
          "on_launch.title_name", IF e.title_name_ = "" THEN 0 ELSE 1),
      "on_launch", e.title_id_.val)

\* on_launch(title_id_.value(), title_name_): the notification with its
\* title id, and whether the name it carries is the kernel's title name
OnLaunch(e) ==
  Log(Log(e, "on_launch", e.title_id_.val),
      "on_launch.title_name", IF e.title_name_ = "" THEN 0 ELSE 1)

CompleteLaunch(e, in) ==
  LET e1 == [e EXCEPT !.title_id_ = NullOpt, !.title_name_ = "",
                      !.title_version_ = ""]
      e2 == [Log(Log(e1, "kernel.LoadUserModule", 1), "module.GetOptHeader",
                 IF in.info.has THEN in.info.val ELSE -1) EXCEPT
               !.title_id_ = BoundTitle(in.info),
               !.title_version_ =
                  IF in.info.has /\ in.version THEN "version" ELSE ""]
      e3 == Log(e2, "graphics.InitializeShaderStorage", e2.title_id_.val)
      tid == NewThreadId(e)
      e4 == LaunchModule(e3, tid)
      e5 == IF e4.title_id_.val # 0
            THEN [e4 EXCEPT !.title_name_ = "kernel_state.title_name"]
            ELSE e4
  IN IF ~e.kernel_state_ THEN Crash(e1, "kernel_state_")
     ELSE IF ~in.moduleLoads
          THEN Ret(Log(e1, "kernel.LoadUserModule", 0), X_STATUS_NOT_FOUND)
     ELSE IF ~e.graphics_system_ THEN Crash(e2, "graphics_system_")
     ELSE IF ~in.threadLaunch
          THEN Ret(Log(e3, "kernel.LaunchModule", 0), X_STATUS_UNSUCCESSFUL)
     ELSE Ret(OnLaunch([e5 EXCEPT !.main_thread_ = Ref(tid)]),
              X_STATUS_SUCCESS)

(***************************************************************************)
(* Emulator::ExceptionCallback, run by the thread that faulted.  in is     *)
(* what the handler finds: internal (processor()->is_debugger_attached()), *)
(* external (debugging::IsDebuggerAttached()), handled (what the internal  *)
(* debugger's OnUnhandledException returns), base and size (the code       *)
(* cache's execute_base_address() and total_size()), pc (ex->pc()).        *)
(* ret is "true" or "false", or "blocked" when the thread has suspended    *)
(* itself at line 595 and the call has not returned.                       *)
(***************************************************************************)
ExceptionInputs ==
  [internal : BOOLEAN, external : BOOLEAN, handled : BOOLEAN,
   base : {1}, size : 0..1, pc : 0..MaxPc]

BoolInt(b) == IF b THEN 1 ELSE 0

\* a range check that takes the end address in
InCodeCache_Closed(pc, code_base, code_end) ==
  pc >= code_base /\ pc <= code_end

\* line 546
InCodeCache(pc, code_base, code_end) == pc >= code_base /\ pc < code_end

\* XThread::Suspend called by the thread on itself: the thread stops there
XThreadSuspendSelf(e, t) ==
  [Log(e, "XThread.Suspend", t) EXCEPT
     !.susp[t] = @ + 1, !.faulted = @ \cup {t}]

\* what the handler reads, in the order it reads it
ExceptionReads(e, in) ==
  Log(Log(Log(Log(Log(e,
    "code_cache.execute_base_address", in.base),
    "code_cache.total_size", in.size),
    "processor.is_debugger_attached", BoolInt(in.internal)),
    "debugging.IsDebuggerAttached", BoolInt(in.external)),
    "ex.pc", in.pc)

ExceptionCallback(e, current_thread, in) ==
  LET e0 == ExceptionReads(e, in)
      code_end == in.base + in.size
      e1 == Pause(Log(e0, "Emulator.Pause", 0), current_thread)
      e2 == Log(e1, "ShowMessageBox", 0)
  IN IF e.crashed THEN e
     ELSE IF ~e.processor_ THEN Crash(e, "processor_")
     ELSE IF ~in.internal /\ in.external THEN Ret(e0, "false")
     ELSE IF in.internal
          THEN Ret(Log(e0, "processor.OnUnhandledException",
                       BoolInt(in.handled)),
                   IF in.handled THEN "true" ELSE "false")
     ELSE IF ~InCodeCache(in.pc, in.base, code_end) THEN Ret(e0, "false")
     ELSE IF e1.crashed THEN e1
     ELSE IF current_thread = NoThread THEN Crash(e1, "current_thread")
     ELSE Ret(XThreadSuspendSelf(e2, current_thread), "blocked")

\* lines 597-599, reached when the suspended thread is resumed:
\* assert_always() ends the process in a build with assertions, and is
\* nothing in one without, where the handler returns false.
ExceptionResumed(e, t, assertions) ==
  IF assertions THEN [Log(e, "assert_always", t) EXCEPT !.crashed = TRUE]
  ELSE Ret([e EXCEPT !.faulted = @ \ {t}], "false")

(***************************************************************************)
(* Emulator::TerminateTitle                                                *)
(***************************************************************************)
is_title_open(e) == e.title_id_.has

\* a TerminateTitle that does not look whether a title is open
TerminateTitle_NoCheck(e) ==
  LET e1 == KernelTerminateTitle(e)
  IN IF e1.crashed THEN e1
     ELSE Ret(Log([e1 EXCEPT !.title_id_ = NullOpt, !.title_name_ = "",
                             !.title_version_ = ""],
                  "on_terminate", 0),
              X_STATUS_SUCCESS)

TerminateTitle(e) ==
  IF ~is_title_open(e) THEN Ret(e, X_STATUS_UNSUCCESSFUL)
  ELSE LET e1 == KernelTerminateTitle(e)
       IN IF e1.crashed THEN e1
          ELSE Ret(Log([e1 EXCEPT !.title_id_ = NullOpt, !.title_name_ = "",
                                  !.title_version_ = ""],
                       "on_terminate", 0),
                   X_STATUS_SUCCESS)

(***************************************************************************)
(* xe::kernel::UserModule (src/xenia/kernel/user_module.cc).               *)
(*                                                                         *)
(* The module object is one record; every method is an operator from a     *)
(* module record to the module record it leaves behind, its status in      *)
(* ret and the calls it made on the translation unit, the processor and    *)
(* the loader hooks in trace.  tu is the cpu::XexModule or cpu::ElfModule  *)
(* that processor_module_ points to.                                       *)
(***************************************************************************)
kModuleFormatUndefined == "kModuleFormatUndefined"
kModuleFormatXex == "kModuleFormatXex"
kModuleFormatElf == "kModuleFormatElf"

\* the magics LoadFromMemory knows, as load_and_swap reads them
XEX2 == 1480939570
XEX1 == 1480939569
ELF == 2135247942
MZ == 19802

\* the first four bytes of a buffer, as a big-endian number
Magics == {XEX2, XEX1, ELF, MZ * 65536 + 1, MZ, XEX2 + 1}

\* xe::load_and_swap<uint16_t>(addr) of a buffer whose first four bytes
\* load_and_swap<uint32_t> reads as magic: the first two bytes
Magic16(magic) == magic \div 65536

\* A buffer: its magic, whether the parser of its format takes its headers
\* (XexModule::Load, ElfModule::Load), and what the headers declare.
Buffers ==
  {b \in [magic : Magics, parses : BOOLEAN, is_patch : BOOLEAN,
          entry : 1..MaxEntry, stack : 1..MaxStack, dll : BOOLEAN] :
     /\ (b.magic \notin {XEX2, XEX1} \/ ~b.parses) => (~b.is_patch /\ ~b.dll)
     /\ (b.magic \notin {XEX2, XEX1, ELF} \/ ~b.parses)
          => (b.entry = 1 /\ b.stack = 1)}

NoBuffer ==
  [magic |-> 0, parses |-> FALSE, is_patch |-> FALSE, entry |-> 1,
   stack |-> 1, dll |-> FALSE]

\* no translation unit
NoUnit ==
  [kind |-> "none", is_patch |-> FALSE, entry |-> 0, stack |-> 0,
   dll |-> FALSE, loaded |-> FALSE, patched |-> FALSE]

\* UserModule::UserModule.  op, arg: the method that was called last and
\* its argument; calls, on_load, on_unload: how many calls were made and
\* how often each hook has fired since the object was made.
NewUserModule ==
  [module_format_    |-> kModuleFormatUndefined,
   processor_module_ |-> 0,
   tu                |-> NoUnit,
   registered        |-> FALSE,
   guest_xex_header_ |-> 0,
   entry_point_      |-> 0,
   stack_size_       |-> 0,
   is_dll_module_    |-> FALSE,
   on_load           |-> 0,
   on_unload         |-> 0,
   op                |-> "UserModule",
   arg               |-> NoBuffer,
   calls             |-> 0,
   ret               |-> "none",
   trace             |-> <<>>]

\* XModule::OnLoad, XModule::OnUnload: the kernel's notifications
OnLoad(m) == [Log(m, "OnLoad", 0) EXCEPT !.on_load = @ + 1]
OnUnload(m) == [Log(m, "OnUnload", 0) EXCEPT !.on_unload = @ + 1]

\* Processor::AddModule takes the unit into the processor's module list
AddModule(m) == [Log(m, "processor.AddModule", 1) EXCEPT !.registered = TRUE]

\* cpu::XexModule::Load, cpu::ElfModule::Load of a buffer that parses: the
\* unit holds what the headers declare
XexModule(buf) ==
  [kind |-> "xex", is_patch |-> buf.is_patch, entry |-> buf.entry,
   stack |-> buf.stack, dll |-> buf.dll, loaded |-> FALSE,
   patched |-> FALSE]

ElfModule(buf) ==
  [kind |-> "elf", is_patch |-> FALSE, entry |-> buf.entry, stack |-> 0,
   dll |-> FALSE, loaded |-> FALSE, patched |-> FALSE]

\* UserModule::xex_module(): processor_module_ as an XexModule, or null
xex_module(m) == IF m.processor_module_ = 0 THEN NoUnit ELSE m.tu

\* the status of a patchable image whose headers are read
HeadersStatus(m) ==
  IF xex_module(m).is_patch THEN X_STATUS_SUCCESS ELSE X_STATUS_PENDING

\* LoadFromMemory, the branch of kModuleFormatXex
LoadXex(m, buf) ==
  IF ~buf.parses
  THEN Ret(Log(m, "XexModule.Load", 0), X_STATUS_UNSUCCESSFUL)
  ELSE LET m1 == [Log(m, "XexModule.Load", 1)
                    EXCEPT !.processor_module_ = 1, !.tu = XexModule(buf)]
           m2 == AddModule(m1)
       IN IF ~m2.registered THEN Ret(m2, X_STATUS_UNSUCCESSFUL)
          ELSE Ret(m2, HeadersStatus(m2))

\* LoadFromMemory, the branch of kModuleFormatElf, without the entry point
LoadElf_NoEntry(m, buf) ==
  IF ~buf.parses
  THEN Ret(Log(m, "ElfModule.Load", 0), X_STATUS_UNSUCCESSFUL)
  ELSE LET m1 == [Log(m, "ElfModule.Load", 1)
                    EXCEPT !.stack_size_ = 1024 * 1024,
                           !.is_dll_module_ = FALSE,
                           !.processor_module_ = 1, !.tu = ElfModule(buf)]
           m2 == AddModule(m1)
       IN IF ~m2.registered THEN Ret(m2, X_STATUS_UNSUCCESSFUL)
          ELSE Ret(OnLoad(m2), X_STATUS_SUCCESS)

\* LoadFromMemory, the branch of kModuleFormatElf
LoadElf(m, buf) ==
  IF ~buf.parses
  THEN Ret(Log(m, "ElfModule.Load", 0), X_STATUS_UNSUCCESSFUL)
  ELSE LET m1 == [Log(m, "ElfModule.Load", 1)
                    EXCEPT !.entry_point_ = ElfModule(buf).entry,
                           !.stack_size_ = 1024 * 1024,
                           !.is_dll_module_ = FALSE,
                           !.processor_module_ = 1, !.tu = ElfModule(buf)]
           m2 == AddModule(m1)
       IN IF ~m2.registered THEN Ret(m2, X_STATUS_UNSUCCESSFUL)
          ELSE Ret(OnLoad(m2), X_STATUS_SUCCESS)

\* UserModule::LoadFromMemory
LoadFromMemory(m, buf) ==
  LET magic == buf.magic
  IN IF magic = XEX2 \/ magic = XEX1
     THEN LoadXex([m EXCEPT !.module_format_ = kModuleFormatXex], buf)
     ELSE IF magic = ELF
     THEN LoadElf([m EXCEPT !.module_format_ = kModuleFormatElf], buf)
     ELSE IF Magic16(magic) = MZ
     THEN Ret(Log(m, "XELOGE XNA", 0), X_STATUS_NOT_IMPLEMENTED)
     ELSE Ret(Log(m, "XELOGE Unknown module magic", 0),
              X_STATUS_NOT_IMPLEMENTED)

\* Memory::SystemHeapAlloc: the guest address of the new block
SystemHeapAlloc == 4096

\* LoadXexContinue from the link step on
LinkAndCache(m, linkOK) ==
  IF ~linkOK
  THEN Ret(Log(m, "XexModule.LoadContinue", 0), X_STATUS_UNSUCCESSFUL)
  ELSE LET m1 == [Log(m, "XexModule.LoadContinue", 1)
                    EXCEPT !.tu.loaded = TRUE]
           m2 == [Log(m1, "memcpy xex_header", SystemHeapAlloc)
                    EXCEPT !.guest_xex_header_ = SystemHeapAlloc]
           m3 == [m2 EXCEPT !.entry_point_ = xex_module(m2).entry,
                            !.stack_size_ = xex_module(m2).stack,
                            !.is_dll_module_ = xex_module(m2).dll]
           m4 == Log(m3, "ldr_data", m3.entry_point_)
       IN Ret(OnLoad(m4), X_STATUS_SUCCESS)

\* LoadXexContinue without the test of guest_xex_header_
LoadXexContinue_Again(m, linkOK) ==
  IF xex_module(m).kind = "none" THEN Ret(m, X_STATUS_UNSUCCESSFUL)
  ELSE LinkAndCache(m, linkOK)

\* UserModule::LoadXexContinue
LoadXexContinue(m, linkOK) ==
  IF xex_module(m).kind = "none" THEN Ret(m, X_STATUS_UNSUCCESSFUL)
  ELSE IF m.guest_xex_header_ # 0 THEN Ret(m, X_STATUS_SUCCESS)
  ELSE LinkAndCache(m, linkOK)

\* cpu::XexModule::Unload
XexUnload(m, unloadOK) ==
  IF unloadOK
  THEN [Log(m, "XexModule.Unload", 1) EXCEPT !.tu.loaded = FALSE]
  ELSE Log(m, "XexModule.Unload", 0)

\* Unload from the second test on
UnloadUnit(m, unloadOK) ==
  IF m.module_format_ = kModuleFormatXex /\ m.processor_module_ # 0
  THEN LET m1 == XexUnload(m, unloadOK)
       IN IF unloadOK THEN Ret(OnUnload(m1), X_STATUS_SUCCESS)
          ELSE Ret(m1, X_STATUS_UNSUCCESSFUL)
  ELSE Ret(m, X_STATUS_UNSUCCESSFUL)

\* Unload without the quick abort
Unload_NoAbort(m, unloadOK) == UnloadUnit(m, unloadOK)

\* UserModule::Unload
Unload(m, unloadOK) ==
  IF m.module_format_ = kModuleFormatXex
       /\ (m.processor_module_ = 0 \/ ~xex_module(m).loaded)
  THEN Ret(m, X_STATUS_SUCCESS)
  ELSE UnloadUnit(m, unloadOK)

(***************************************************************************)
(* The header table of a XEX image and the two lookups in it.              *)
(*                                                                         *)
(* A header is its guest address and its entries in the order of the       *)
(* file, header_count of them; an entry is a key and one 32-bit field that *)
(* the code reads as value or as offset.  The subtype of a key is its low  *)
(* byte.                                                                   *)
(***************************************************************************)
\* A uint32_t is its two 16-bit halves: 2^32 is more than the integers of
\* the checker hold.  U32(n) is the word of a number below 2^31.
Half == 65536
U32(n) == [hi |-> n \div Half, lo |-> n % Half]

\* a + b and a - b of uint32_t, which wrap
Add32(a, b) ==
  LET lo == a.lo + b.lo
  IN [hi |-> (a.hi + b.hi + lo \div Half) % Half, lo |-> lo % Half]

Sub32(a, b) ==
  LET lo == a.lo - b.lo
  IN [hi |-> (a.hi - b.hi - (IF lo < 0 THEN 1 ELSE 0)) % Half,
      lo |-> lo % Half]

\* a / 16 of uint32_t
Div16(a) == a.hi * (Half \div 16) + a.lo \div 16

\* what a variable of the caller holds before the call writes to it
OutBefore == [hi |-> 57005, lo |-> 48879]

Keys == {k * 256 + st : k \in 1..MaxKey, st \in {0, 1, 2, 255}}
Values == {U32(0), U32(7), [hi |-> Half - 1, lo |-> Half - 1]}
OptHeaders == [key : Keys, value : Values]

RECURSIVE SeqsUpTo(_, _)
SeqsUpTo(S, n) ==
  IF n = 0 THEN {<<>>}
  ELSE LET shorter == SeqsUpTo(S, n - 1)
       IN shorter \cup {Append(q, x) : q \in {q \in shorter : Len(q) = n - 1},
                                       x \in S}

\* the guest address of headers[i].value: the entries follow the six words
\* of xex2_header, two words each, the key first
ValueSlot(header, i) == Add32(header.base, U32(24 + 8 * i + 4))

\* the switch on the subtype, every subtype read as 0x00
FieldValue_Inline(header, i) == header.headers[i + 1].value

\* the switch on the subtype
FieldValue(header, i) ==
  LET opt_header == header.headers[i + 1]
      subtype == opt_header.key % 256
  IN IF subtype = 0 THEN opt_header.value
     ELSE IF subtype = 1 THEN ValueSlot(header, i)
     ELSE Add32(header.base, opt_header.value)

\* the loop of GetOptHeader from entry i on: field_found and field_value
RECURSIVE FindOptHeader(_, _, _)
FindOptHeader(header, key, i) ==
  IF i >= Len(header.headers) THEN [field_found |-> FALSE, field_value |-> U32(0)]
  ELSE IF header.headers[i + 1].key # key
  THEN FindOptHeader(header, key, i + 1)
  ELSE [field_found |-> TRUE, field_value |-> FieldValue(header, i)]

\* UserModule::GetOptHeader(memory, header, key, out_header_guest_ptr)
GetOptHeader(c) ==
  LET f == FindOptHeader(c.header, c.key, 0)
  IN [c EXCEPT !.done = TRUE,
               !.out = f.field_value,
               !.ret = IF ~f.field_found THEN X_STATUS_NOT_FOUND
                       ELSE X_STATUS_SUCCESS]

\* the calls of GetOptHeader: out is what the caller's variable holds
OptHeaderCalls ==
  [fn : {"GetOptHeader"},
   header : [base : {U32(SystemHeapAlloc)},
             headers : SeqsUpTo(OptHeaders, MaxHeaders)],
   key : Keys, out : {OutBefore}, ret : {"none"}, done : {FALSE}]

(***************************************************************************)
(* The resource directory, the header of key XEX_HEADER_RESOURCE_INFO: a   *)
(* 32-bit size and, after it, entries of 16 bytes (a name of 8 bytes, an   *)
(* address, a size).  mem is what is in memory after the size field, read  *)
(* as entries: the entries of the directory, then whatever follows it;     *)
(* after mem no memory is mapped and a read faults.  reads is the highest  *)
(* number of entries GetSection has read.                                  *)
(***************************************************************************)
Names == {"media", "title"}
Resources == [name : Names, address : {U32(4096)}, size : {U32(16)}]

DirSizes == {U32(n) : n \in {0, 3, 4, 19, 20, 35, 36}}

\* what the directory declares it holds
Declared(dir) ==
  IF dir.size.hi = 0 /\ dir.size.lo < 4 THEN 0
  ELSE Div16(Sub32(dir.size, U32(4)))

Directories ==
  {d \in [present : BOOLEAN, size : DirSizes,
          mem : SeqsUpTo(Resources, MaxResources + MaxBeyond)] :
     /\ Declared(d) <= Len(d.mem)
     /\ Len(d.mem) <= Declared(d) + MaxBeyond
     /\ ~d.present => (d.size = U32(0) /\ d.mem = <<>>)}

\* uint32_t count = (resource_header->size - 4) / sizeof(xex2_resource)
ResourceCount(dir) == Div16(Sub32(dir.size, U32(4)))

\* the loop of GetSection from entry i on
RECURSIVE FindResource(_, _, _)
FindResource(c, count, i) ==
  IF i >= count THEN [c EXCEPT !.ret = X_STATUS_NOT_FOUND]
  ELSE IF i >= Len(c.dir.mem) THEN [c EXCEPT !.fault = TRUE, !.reads = i + 1]
  ELSE LET res == c.dir.mem[i + 1]
           c1 == [c EXCEPT !.reads = i + 1]
       IN IF res.name = c.name
          THEN [c1 EXCEPT !.out_section_data = res.address,
                          !.out_section_size = res.size,
                          !.ret = X_STATUS_SUCCESS]
          ELSE FindResource(c1, count, i + 1)

\* UserModule::GetSection
GetSection(c) ==
  IF ~c.dir.present THEN [c EXCEPT !.done = TRUE, !.ret = X_STATUS_NOT_FOUND]
  ELSE FindResource([c EXCEPT !.done = TRUE], ResourceCount(c.dir), 0)

SectionCalls ==
  [fn : {"GetSection"}, dir : Directories, name : Names,
   out_section_data : {OutBefore}, out_section_size : {OutBefore},
   ret : {"none"}, done : {FALSE}, reads : {0}, fault : {FALSE}]

(***************************************************************************)
(* The virtual file system and the content manager, as LoadFromFile and    *)
(* TryMountUpdatePackage see them.                                         *)
(*                                                                         *)
(* base is the file of the module, beside the file next to it whose name   *)
(* is the module's with "p" added.  packages is ListContent(0,             *)
(* kInstaller), in its order.  A package holds the patch file of the       *)
(* module under its disc folder ("disc"), at its root ("root") or not at   *)
(* all ("none"); kind is how far TryMountUpdatePackage gets with it.       *)
(* bound is the set of packages that are open under the name "update",     *)
(* which is when the link "update:" is there; root is what the link        *)
(* points to, the root of the package or its disc folder.                  *)
(***************************************************************************)
File(buf) == [exists |-> TRUE, buf |-> buf]
NoEntry == [exists |-> FALSE, buf |-> NoBuffer]

\* a base image, an object file, a legacy executable, a patch image, a
\* patch image whose headers do not parse
BaseImage ==
  [magic |-> XEX2, parses |-> TRUE, is_patch |-> FALSE, entry |-> 1,
   stack |-> 1, dll |-> FALSE]
ObjectImage == [BaseImage EXCEPT !.magic = ELF]
LegacyImage == [NoBuffer EXCEPT !.magic = MZ * 65536 + 1]
PatchImage == [BaseImage EXCEPT !.is_patch = TRUE]
BadPatchImage == [NoBuffer EXCEPT !.magic = XEX2]

PackageKinds ==
  {"noopen", "noread", "noparse", "inapplicable", "applicable"}

PackagesOf(id) ==
  {p \in [id : {id}, kind : PackageKinds, where : {"disc", "root", "none"}] :
     /\ p.kind = "noopen" => p.where = "none"
     /\ p.where = "none" => p.kind \in {"noopen", "applicable"}}

NoVfs ==
  [base |-> NoEntry, beside |-> NoEntry, packages |-> <<>>, bound |-> {},
   root |-> "root", loads |-> 0, devices |-> <<>>,
   links |-> [link \in {"game:", "d:"} |-> ""]]

\* the package that is open under "update"
Bound(v) ==
  CHOOSE p \in {v.packages[i] : i \in 1..Len(v.packages)} : p.id \in v.bound

\* VirtualFileSystem::FindSymbolicLink("update:")
FindSymbolicLink(v) == v.bound # {}

\* the patch file in a package
PatchFile(p) ==
  File(IF p.kind = "noparse" THEN BadPatchImage ELSE PatchImage)

\* VirtualFileSystem::ResolvePath of update:\<folder>\<module>p
ResolveUpdate(v, folder) ==
  IF ~FindSymbolicLink(v) THEN NoEntry
  ELSE IF \/ v.root = "root" /\ Bound(v).where = folder
          \/ v.root = "disc" /\ folder = "root" /\ Bound(v).where = "disc"
  THEN PatchFile(Bound(v))
  ELSE NoEntry

\* A path: the device and how many "p" follow the name of the module.
ModulePath == [dev |-> "game", ps |-> 0]

\* VirtualFileSystem::ResolvePath
ResolvePath(v, path) ==
  IF path.dev = "game"
  THEN (IF path.ps = 0 THEN v.base
        ELSE IF path.ps = 1 THEN v.beside
        ELSE NoEntry)
  ELSE IF path.ps = 1 THEN ResolveUpdate(v, "root")
  ELSE NoEntry

\* A method of the module at work: the module, the file system, and what
\* TryMountUpdatePackage returned.
At(m, v) == [m |-> m, v |-> v, mounted |-> FALSE]
Did(s, name, arg) == [s EXCEPT !.m = Log(@, name, arg)]

\* ContentManager::OpenContent("update", p): one package to a root name
OpenContent(s, p) ==
  IF p.kind = "noopen" \/ s.v.bound # {}
  THEN Did(s, "OpenContent failed", p.id)
  ELSE [Did(s, "OpenContent", p.id)
          EXCEPT !.v.bound = {p.id}, !.v.root = "root"]

\* ContentManager::CloseContent("update")
CloseContent(s) == [Did(s, "CloseContent", 0) EXCEPT !.v.bound = {}]

\* lines 283-298: the link is set to the disc folder
Remap(s, remapOK) ==
  IF FindSymbolicLink(s.v) /\ remapOK
  THEN [Did(s, "UpdateSymbolicLink", 1) EXCEPT !.v.root = "disc"]
  ELSE Did(s, "XELOGE Failed to remap", 0)

\* a return of TryMountUpdatePackage: what it returns ends its trace
Returns(s, mounted) ==
  [s EXCEPT !.m = Log(@, "TryMountUpdatePackage returns", BoolInt(mounted)),
            !.mounted = mounted]

\* the loop of TryMountUpdatePackage from package i on
RECURSIVE CheckPackages(_, _, _)
CheckPackages(s, i, remapOK) ==
  IF i > Len(s.v.packages) THEN Returns(s, FALSE)
  ELSE
    LET update == s.v.packages[i]
        s1 == OpenContent(s, update)
        in_disc == ResolveUpdate(s1.v, "disc").exists
        xexp_entry == IF in_disc THEN ResolveUpdate(s1.v, "disc")
                      ELSE ResolveUpdate(s1.v, "root")
    IN IF update.id \notin s1.v.bound THEN CheckPackages(s1, i + 1, remapOK)
       ELSE IF ~xexp_entry.exists
       THEN CheckPackages(CloseContent(s1), i + 1, remapOK)
       ELSE IF update.kind = "noread"
       THEN Returns(CloseContent(Did(s1, "XELOGE Failed to read",
                                     update.id)), TRUE)
       ELSE IF ~xexp_entry.buf.parses
       THEN CheckPackages(CloseContent(Did(s1, "XexModule.Load", 0)),
                          i + 1, remapOK)
       ELSE IF update.kind # "applicable"
       THEN CheckPackages(CloseContent(Did(s1, "IsPatchApplicable", 0)),
                          i + 1, remapOK)
       ELSE LET s2 == Did(s1, "IsPatchApplicable", 1)
            IN Returns(IF in_disc THEN Remap(s2, remapOK) ELSE s2, TRUE)

\* UserModule::TryMountUpdatePackage
TryMountUpdatePackage(s, remapOK) ==
  IF FindSymbolicLink(s.v)
  THEN Returns(Did(s, "TryMountUpdatePackage", 0), FALSE)
  ELSE CheckPackages(Did(s, "TryMountUpdatePackage", 0), 1, remapOK)

\* what a call of LoadFromFile finds: the cvar xex_apply_patches, whether
\* the file of a patch can be read, whether the patch applies, whether the
\* module links, whether the link can be set to the disc folder
FileInputs ==
  [xex_apply_patches : BOOLEAN, readOK : BOOLEAN, applyOK : BOOLEAN,
   linkOK : BOOLEAN, remapOK : BOOLEAN]

\* the calls a patch module made, in the trace of the module it patches
RECURSIVE OfPatch(_)
OfPatch(tr) ==
  IF tr = <<>> THEN <<>>
  ELSE <<Ev("patch: " \o Head(tr)[1], Head(tr)[2])>> \o OfPatch(Tail(tr))

\* cpu::XexModule::ApplyPatch of the patch module on the module: 0 or not
ApplyPatch(m, applyOK) ==
  IF applyOK THEN [Log(m, "ApplyPatch", 0) EXCEPT !.tu.patched = TRUE]
  ELSE Log(m, "ApplyPatch", 1)

\* lines 54-102: the file is resolved, read and given to LoadFromMemory
LoadFile(s, path, in) ==
  LET fs_entry == ResolvePath(s.v, path)
  IN IF ~fs_entry.exists
     THEN [s EXCEPT !.m = Ret(Log(@, "XELOGE File not found", path.ps),
                              X_STATUS_NO_SUCH_FILE)]
     ELSE IF path.ps > 0 /\ ~in.readOK
     THEN [s EXCEPT !.m = Ret(Log(@, "Open", 0), X_STATUS_UNSUCCESSFUL)]
     ELSE [s EXCEPT !.m = LoadFromMemory(Log(@, "Open", 1), fs_entry.buf)]

\* line 155: the module goes on to link
Continue(s, in) ==
  [s EXCEPT !.m = LoadXexContinue(Log(@, "LoadXexContinue", 0), in.linkOK)]

\* UserModule::LoadFromFile
RECURSIVE LoadFromFile(_, _, _)
LoadFromFile(s, path, in) ==
  LET s1 == LoadFile(s, path, in)
  IN IF s1.m.ret # X_STATUS_PENDING THEN s1
     ELSE IF ~in.xex_apply_patches THEN Continue(s1, in)
     ELSE
       LET s2 == TryMountUpdatePackage(s1, in.remapOK)
           patch_path == [dev |-> "update", ps |-> path.ps + 1]
           patch_entry == ResolvePath(s2.v, patch_path)
           s3 == Did(s2, "ResolvePath update", BoolInt(patch_entry.exists))
           \* the entry of the second lookup is a variable of the inner block
           s4 == IF patch_entry.exists THEN s3
                 ELSE Did(s3, "ResolvePath beside",
                          BoolInt(ResolvePath(s3.v,
                                     [path EXCEPT !.ps = @ + 1]).exists))
       IN IF ~patch_entry.exists THEN Continue(s4, in)
          ELSE
            LET p == LoadFromFile(At(NewUserModule, s4.v), patch_path, in)
                s5 == [s4 EXCEPT !.v = p.v,
                                 !.m.trace = @ \o OfPatch(p.m.trace)]
                s6 == IF p.m.ret = X_STATUS_SUCCESS
                      THEN [s5 EXCEPT !.m = ApplyPatch(@, in.applyOK)]
                      ELSE Did(s5, "XELOGE Failed to load XEX patch", 0)
                failed == p.m.ret # X_STATUS_SUCCESS \/ ~in.applyOK
            IN IF failed
               THEN [s6 EXCEPT !.m = Ret(@, X_STATUS_UNSUCCESSFUL)]
               ELSE Continue(s6, in)

(***************************************************************************)
(* Emulator::LaunchPath and the three launch variants.  A host path is its *)
(* directory, the stem of its file name and the extension.  devices and    *)
(* links of vfs are what file_system_ has registered: the devices in the   *)
(* order of RegisterDevice, and what "game:" and "d:" point to ("" when    *)
(* the link is not there).  in is what a launch finds: initOK              *)
(* (device->Initialize()), registerOK (RegisterDevice), launch_module (the *)
(* cvar), gameinfo (GameInfo.bin at the root of the mount: "absent",       *)
(* "noopen", "noread", "invalid" or "valid"), xna (the folder 584E07D1 is  *)
(* there), complete (the inputs of CompleteLaunch).                        *)
(***************************************************************************)
HostPaths ==
  { [dir |-> "/games", stem |-> "game", ext |-> ".xex"],
    [dir |-> "/games", stem |-> "Game", ext |-> ".XEX"],
    [dir |-> "/games", stem |-> "hello", ext |-> ".elf"],
    [dir |-> "/images", stem |-> "disc", ext |-> ".iso"],
    [dir |-> "/content", stem |-> "584E07D1", ext |-> ""] }

\* std::filesystem::path: has_extension, parent_path, filename, the path
has_extension(path) == path.ext # ""
parent_path(path) == path.dir
filename(path) == path.stem \o path.ext
path_to_utf8(path) == path.dir \o "/" \o filename(path)

\* xe::utf8::lower_ascii of an extension
lower_ascii(ext) ==
  IF ext = ".XEX" THEN ".xex"
  ELSE IF ext = ".ELF" THEN ".elf"
  ELSE IF ext = ".EXE" THEN ".exe"
  ELSE IF ext = ".ISO" THEN ".iso"
  ELSE ext

GameInfoKinds == {"absent", "noopen", "noread", "invalid", "valid"}

\* what CompleteLaunch finds in a launch: the module does not load, its
\* thread does not start, or the title starts
CompleteCases ==
  {c \in LaunchInputs :
     ~c.version /\ c.info = Some(1) /\ (c.moduleLoads \/ c.threadLaunch)}

\* what is not looked at is left at its first value
LaunchPathInputs ==
  {in \in [initOK : BOOLEAN, registerOK : BOOLEAN,
           launch_module : {"", "other.xex"}, gameinfo : GameInfoKinds,
           xna : BOOLEAN, complete : CompleteCases] :
     /\ ~in.initOK => in.registerOK
     /\ ~(in.initOK /\ in.registerOK)
          => /\ in.launch_module = "" /\ in.gameinfo = "absent" /\ ~in.xna
             /\ in.complete.moduleLoads /\ in.complete.threadLaunch}

\* a launch at work: the emulator, the file system, and the module path
\* given to CompleteLaunch ("" when it is not called)
Launching(e, v) == [e |-> e, v |-> v, module_path |-> ""]

\* VirtualFileSystem::RegisterDevice
RegisterDevice(s, device, registerOK) ==
  IF registerOK
  THEN [s EXCEPT !.e = Log(@, "RegisterDevice " \o device.mount, 1),
                 !.v.devices = Append(@, device)]
  ELSE [s EXCEPT !.e = Log(@, "RegisterDevice " \o device.mount, 0)]

\* VirtualFileSystem::RegisterSymbolicLink
RegisterSymbolicLink(s, link, target) ==
  [s EXCEPT !.e = Log(@, "RegisterSymbolicLink " \o link, 0),
            !.v.links[link] = target]

\* the two links of one launch variant, that of d: left out
Links_GameOnly(s, mount_path) == RegisterSymbolicLink(s, "game:", mount_path)

\* the two links of a launch variant (lines 298-299, 324-325, 347-348)
Links(s, mount_path) ==
  RegisterSymbolicLink(RegisterSymbolicLink(s, "game:", mount_path),
                       "d:", mount_path)

\* the module of the launch is always default.xex
FindLaunchModule_Default(in) == "game:\\" \o "default.xex"

\* Emulator::FindLaunchModule
FindLaunchModule(in) ==
  LET path == "game:\\"
      info_module_name == "title.xex"
      xna_id == "584E07D1"
      default_module ==
        IF in.gameinfo = "absent" THEN "default.xex"
        ELSE IF in.gameinfo = "noopen" THEN "default.xex"
        ELSE IF in.gameinfo = "noread" THEN "default.xex"
        ELSE IF in.gameinfo = "invalid" THEN "default.xex"
        ELSE IF in.xna THEN xna_id \o "\\" \o info_module_name
        ELSE "default.xex"
  IN IF in.launch_module # "" THEN path \o in.launch_module
     ELSE path \o default_module

\* the call of CompleteLaunch(path, module_path) that ends a launch
Complete(s, module_path, in) ==
  [s EXCEPT !.e = CompleteLaunch(Log(@, "CompleteLaunch", 0), in.complete),
            !.module_path = module_path]

\* the mount of a launch variant: the device is initialized and registered
\* and the two links are made; ok tells whether the launch goes on
Mount(s, device, what, in) ==
  IF ~in.initOK
  THEN [s EXCEPT !.e = Ret(Log(@, "Initialize " \o what, 0),
                           X_STATUS_NO_SUCH_FILE)]
  ELSE LET s1 == RegisterDevice([s EXCEPT !.e = Log(@, "Initialize " \o what,
                                                    1)],
                                device, in.registerOK)
       IN IF ~in.registerOK
          THEN [s1 EXCEPT !.e = Ret(@, X_STATUS_NO_SUCH_FILE)]
          ELSE Links(s1, device.mount)

\* Emulator::LaunchXexFile
LaunchXexFile(s, path, in) ==
  LET mount_path == "\\Device\\Harddisk0\\Partition0"
      device == [kind |-> "HostPathDevice", mount |-> mount_path,
                 host |-> parent_path(path)]
      s1 == Mount(s, device, "HostPathDevice", in)
      fs_path == "game:\\" \o filename(path)
  IN IF s1.e.ret # "none" THEN s1 ELSE Complete(s1, fs_path, in)

\* Emulator::LaunchDiscImage
LaunchDiscImage(s, path, in) ==
  LET mount_path == "\\Device\\Cdrom0"
      device == [kind |-> "DiscImageDevice", mount |-> mount_path,
                 host |-> path_to_utf8(path)]
      s1 == Mount(s, device, "DiscImageDevice", in)
  IN IF s1.e.ret # "none" THEN s1
     ELSE Complete(s1, FindLaunchModule(in), in)

\* Emulator::LaunchStfsContainer
LaunchStfsContainer(s, path, in) ==
  LET mount_path == "\\Device\\Cdrom0"
      device == [kind |-> "StfsContainerDevice", mount |-> mount_path,
                 host |-> path_to_utf8(path)]
      s1 == Mount(s, device, "StfsContainerDevice", in)
  IN IF s1.e.ret # "none" THEN s1
     ELSE Complete(s1, FindLaunchModule(in), in)

\* the variant Emulator::LaunchPath takes for a path
Variant(path) ==
  IF ~has_extension(path) THEN "LaunchStfsContainer"
  ELSE IF lower_ascii(path.ext) \in {".xex", ".elf", ".exe"}
  THEN "LaunchXexFile"
  ELSE "LaunchDiscImage"

\* Emulator::LaunchPath
LaunchPath(s, path, in) ==
  IF Variant(path) = "LaunchStfsContainer"
  THEN LaunchStfsContainer(s, path, in)
  ELSE IF Variant(path) = "LaunchXexFile" THEN LaunchXexFile(s, path, in)
  ELSE LaunchDiscImage(s, path, in)

(***************************************************************************)
(* Threads that run at once.  race is where each of two callers of Pause   *)
(* is in its call (pc: "idle", "mark" after the test of line 356,          *)
(* "subsystems" after line 359, "suspend" after line 363, "done"), which   *)
(* thread each caller is (who; NoThread is a host thread), where a host    *)
(* thread is in RestoreFromFile (pcR), which thread holds the global       *)
(* critical region (lock), how many times a guest thread has taken it      *)
(* (taken), whether Resume was called ("no", "early" when a caller of      *)
(* Pause had not returned, "after"), and the host suspend counts before    *)
(* the calls (before).                                                     *)
(***************************************************************************)
Pausers == 1..2

NoOwner == [held |-> FALSE, by |-> NoThread]
Owner(t) == [held |-> TRUE, by |-> t]

NoRace ==
  [on |-> FALSE, pc |-> [i \in Pausers |-> "idle"],
   who |-> [i \in Pausers |-> NoThread], pcR |-> "idle", lock |-> NoOwner,
   taken |-> 0, resumed |-> "no", before |-> [t \in ThreadIds |-> 0]]

\* a region that is entered without the lock
CanAcquire_Always(lock) == TRUE

\* global_critical_region::AcquireDirect() returns when no other thread
\* holds the region
CanAcquire(lock) == ~lock.held

\* the thread can take a step: a host thread, or an XThread that runs and
\* is not suspended
Runs(e, c) ==
  c = NoThread \/ (c \in e.table /\ e.running[c] /\ e.susp[c] = 0)

\* lines 356-358: the test of paused_
PauseTest(e) == IF e.paused_ THEN "done" ELSE "mark"

\* line 359
PauseMark(e) == [e EXCEPT !.paused_ = TRUE]

\* lines 362-363
PauseSubsystems(e) == AudioPause(GraphicsPause(e))

NoCall == [fn |-> "none"]

(***************************************************************************)
(* The specification of the API, one call at a time: Spec.                 *)
(*                                                                         *)
(* hist ends with the last step: what was called, by which thread, what    *)
(* it returned, the calls it made, and whether the emulator was paused     *)
(* when it was called.  In SpecThreads, before it come the Pause and       *)
(* Resume calls that were made in a row right before it, up to HistLen     *)
(* records in all.                                                         *)
(***************************************************************************)
\* the first offset at which event name is in the trace, -1 if it is not
RECURSIVE EvArg(_, _)
EvArg(tr, name) ==
  IF tr = <<>> THEN -1
  ELSE IF Head(tr)[1] = name THEN Head(tr)[2]
  ELSE EvArg(Tail(tr), name)

\* A file: its bytes and, for the record, the title id its writer had
\* bound, whether it starts with the marker, and the offset at which each
\* subsystem's Save started to write.
NoFile ==
  [exists |-> FALSE, bytes |-> <<>>, title |-> NullOpt, marked |-> FALSE,
   pos |-> [s \in SubNames |-> 0]]

Written(r) ==
  [exists |-> TRUE, bytes |-> r.stream.buf, title |-> r.title_id_,
   marked |-> TRUE,
   pos |-> [s \in SubNames |-> EvArg(r.trace, s \o ".Save")]]

\* A snapshot written by another run of the emulator: one running main
\* thread, bound title ti.
OtherRun(ti) ==
  [Constructed EXCEPT
     !.memory_ = TRUE, !.processor_ = TRUE, !.audio_system_ = TRUE,
     !.graphics_system_ = TRUE, !.input_system_ = TRUE,
     !.kernel_state_ = TRUE, !.title_id_ = ti,
     !.table = {1}, !.running[1] = TRUE, !.main_flag = 1]

\* A file that does not start with the marker.
Corrupt(f) == [f EXCEPT !.bytes[1] = 0, !.marked = FALSE]

ExternalFiles ==
  LET good == {Written(WriteSnapshot(OtherRun(ti))) : ti \in OptTitles}
  IN good \cup {Corrupt(Written(WriteSnapshot(OtherRun(NullOpt))))}

PauseResume == {"Pause", "Resume"}

Push(h, rec) ==
  IF rec.op \notin PauseResume \/ h = <<>> \/ ~rec.inRow THEN <<rec>>
  ELSE IF h[Len(h)].op \notin PauseResume THEN <<rec>>
  ELSE IF Len(h) < HistLen THEN Append(h, rec)
  ELSE Append(Tail(h), rec)

Last == hist[Len(hist)]

\* after: of a RestoreFromFile call, "SaveToFile" if the call before it was
\* a SaveToFile that returned true
Called(op, current_thread, r) ==
  [op |-> op, caller |-> current_thread, ret |-> r.ret, trace |-> r.trace,
   paused |-> emu.paused_, inRow |-> FALSE,
   after |-> IF op = "RestoreFromFile" /\ Last.op = "SaveToFile"
                /\ Last.ret = "true"
             THEN "SaveToFile" ELSE "-"]

\* the state a call leaves behind, its locals dropped
Leave(r) ==
  [r EXCEPT !.trace = <<>>, !.ret = "none",
            !.stream = [buf |-> <<>>, off |-> 0]]

Usable == emu.setup_result = X_STATUS_SUCCESS /\ ~emu.crashed

\* the threads that can make a call: a host thread, or an XThread that runs
Callers ==
  {NoThread} \cup {t \in emu.table \ emu.faulted :
                     emu.running[t] /\ emu.susp[t] = 0}

\* no host suspend count leaves the bound
Bounded(r) == \A t \in ThreadIds : r.susp[t] <= MaxSuspend

(***************************************************************************)
(* conc: the two host threads of SpecWait, the one that is in              *)
(* WaitUntilExit and the one that is in RestoreFromFile.  waitOn is the    *)
(* thread object the waiter's xe::threading::Wait is on and whether that   *)
(* thread has ended ("no", "exited", "killed"); woke is how the wait last  *)
(* ended; exits counts the on_exit notifications.                           *)
(***************************************************************************)
Idle ==
  [pcW |-> "idle", waitOn |-> [tid |-> NoThread, ended |-> "no"],
   woke |-> "none", pcR |-> "idle", exits |-> 0]

\* what the waiting thread's wait sees of a step from e to r
Observe(c, e, r) ==
  LET t == c.waitOn.tid
  IN IF t = NoThread \/ c.waitOn.ended # "no" THEN c
     ELSE IF t \in e.table /\ t \notin r.table
          THEN [c EXCEPT !.waitOn.ended =
                           IF e.running[t] THEN "killed" ELSE "exited"]
     ELSE IF e.running[t] /\ ~r.running[t]
          THEN [c EXCEPT !.waitOn.ended = "exited"]
     ELSE c

\* a step of the emulator to r
Step(r) == emu' = r /\ conc' = Observe(conc, emu, r)

\* no module is being loaded
InitLoader ==
  /\ mod = NewUserModule
  /\ vfs = NoVfs
  /\ call = NoCall
  /\ race = NoRace

\* the emulator as its constructor leaves it
InitEmulator ==
  /\ conc = Idle
  /\ emu = Constructed
  /\ disk = NoFile
  /\ hist = << [op |-> "Emulator", caller |-> NoThread, ret |-> "none",
                trace |-> <<>>, paused |-> FALSE, inRow |-> FALSE,
                after |-> "-"] >>

Init == InitEmulator /\ InitLoader

CallSetup ==
  /\ emu.setup_result = "none"
  /\ \E in \in SetupInputs :
       LET r == Setup(emu, in)
       IN /\ Step([Leave(r) EXCEPT !.setup_result = r.ret])
          /\ hist' = Push(hist, Called("Setup", NoThread, r))
  /\ UNCHANGED <<disk, loader>>

CallCompleteLaunch ==
  /\ Usable
  /\ \E in \in LaunchInputs :
       /\ NewThreadId(emu) # NoThread
       /\ Cardinality(emu.table \cap GuestIds) < MaxTitleThreads
       /\ LET r == CompleteLaunch(emu, in)
          IN /\ Step(Leave(r))
             /\ hist' = Push(hist, Called("CompleteLaunch", NoThread, r))
  /\ UNCHANGED <<disk, loader>>

CallTerminateTitle ==
  /\ Usable
  /\ LET r == TerminateTitle(emu)
     IN /\ Step(Leave(r))
        /\ hist' = Push(hist, Called("TerminateTitle", NoThread, r))
  /\ UNCHANGED <<disk, loader>>

\* inRow: the record is added to the run of Pause and Resume calls in hist
CallPause(inRow) ==
  /\ Usable
  /\ \E c \in Callers :
       LET r == Pause(emu, c)
       IN /\ Bounded(r)
          /\ Step(Leave(r))
          /\ hist' = Push(hist, [Called("Pause", c, r)
                                   EXCEPT !.inRow = inRow])
  /\ UNCHANGED <<disk, loader>>

CallResume(inRow) ==
  /\ Usable
  /\ LET r == Resume(emu)
     IN /\ Step(Leave(r))
        /\ hist' = Push(hist, [Called("Resume", NoThread, r)
                                 EXCEPT !.inRow = inRow])
  /\ UNCHANGED <<disk, loader>>

CallSaveToFile ==
  /\ Usable
  /\ \E c \in Callers, openOK \in BOOLEAN :
       LET r == SaveToFile(emu, c, openOK)
       IN /\ Bounded(r)
          /\ Step(Leave(r))
          /\ hist' = Push(hist, Called("SaveToFile", c, r))
          /\ disk' = IF r.ret = "true" THEN Written(r) ELSE disk
  /\ UNCHANGED loader

CallRestoreFromFile ==
  /\ Usable
  /\ \E openOK \in (IF disk.exists THEN BOOLEAN ELSE {FALSE}),
        in \in RestoreInputs :
       LET r == RestoreFromFile(emu, NoThread, openOK, disk.bytes, in)
       IN /\ Bounded(r)
          /\ Step(Leave(r))
          /\ hist' = Push(hist, Called("RestoreFromFile", NoThread, r))
  /\ UNCHANGED <<disk, loader>>

(***************************************************************************)
(* The environment: guest code runs, guest threads end, the kernel makes   *)
(* threads, a snapshot file from another run is put at the path.           *)
(***************************************************************************)
Env(what) ==
  [op |-> what, caller |-> NoThread, ret |-> "none", trace |-> <<>>,
   paused |-> emu.paused_, inRow |-> FALSE, after |-> "-"]

GuestRuns ==
  \E t \in emu.table \cap GuestIds : emu.running[t] /\ emu.susp[t] = 0

ThreadExit ==
  /\ Usable
  /\ \E t \in emu.table \ emu.faulted :
       /\ emu.running[t] /\ emu.susp[t] = 0
       /\ Step([emu EXCEPT !.running[t] = FALSE])
  /\ hist' = Push(hist, Env("ThreadExit"))
  /\ UNCHANGED <<disk, loader>>

ThreadCreate ==
  /\ Usable
  /\ \E t \in ThreadIds \ emu.table, suspended \in BOOLEAN :
       /\ can_debugger_suspend(t) => GuestRuns
       /\ Step([emu EXCEPT !.table = @ \cup {t}, !.running[t] = TRUE,
                            !.susp[t] = IF suspended THEN 1 ELSE 0])
  /\ hist' = Push(hist, Env("ThreadCreate"))
  /\ UNCHANGED <<disk, loader>>

GuestStep ==
  /\ Usable
  /\ GuestRuns
  /\ emu.sub # [s \in SubNames |-> Live]
  /\ Step([emu EXCEPT !.sub = [s \in SubNames |-> Live]])
  /\ hist' = Push(hist, Env("GuestStep"))
  /\ UNCHANGED <<disk, loader>>

\* the file is not replaced while a Restore has it mapped
ExternalFile ==
  /\ conc.pcR = "idle"
  /\ \E f \in ExternalFiles :
       /\ disk # f
       /\ disk' = f
  /\ hist' = Push(hist, Env("ExternalFile"))
  /\ UNCHANGED <<emu, conc, loader>>

(***************************************************************************)
(* Spec: the lifecycle and the snapshot engine, one API call at a time.    *)
(***************************************************************************)
Next ==
  \/ CallSetup
  \/ CallCompleteLaunch
  \/ CallTerminateTitle
  \/ CallPause(FALSE)
  \/ CallResume(FALSE)
  \/ CallSaveToFile
  \/ CallRestoreFromFile
  \/ ThreadExit
  \/ GuestStep
  \/ ExternalFile

Spec == Init /\ [][Next]_vars

(***************************************************************************)
(* SpecThreads: Pause and Resume over every thread table.                  *)
(***************************************************************************)
NextThreads ==
  \/ CallSetup
  \/ CallCompleteLaunch
  \/ CallPause(TRUE)
  \/ CallResume(TRUE)
  \/ ThreadExit
  \/ ThreadCreate

SpecThreads == Init /\ [][NextThreads]_vars

(***************************************************************************)
(* SpecFault: threads fault and run the exception handler, while the       *)
(* emulator is paused, resumed and saved.                                  *)
(***************************************************************************)
\* A thread faults.  A fault at a pc of the code cache is a fault of guest
\* code, which only XThreads run.
CallExceptionCallback ==
  /\ Usable
  /\ \E c \in Callers, in \in ExceptionInputs :
       /\ InCodeCache(in.pc, in.base, in.base + in.size) => c \in emu.table
       /\ LET r == ExceptionCallback(emu, c, in)
          IN /\ Bounded(r)
             /\ Step(Leave(r))
             /\ hist' = Push(hist, Called("ExceptionCallback", c, r))
  /\ UNCHANGED <<disk, loader>>

\* a thread that suspended itself in the handler runs again
FaultReturn ==
  /\ Usable
  /\ \E t \in emu.faulted, assertions \in BOOLEAN :
       /\ emu.susp[t] = 0
       /\ LET r == ExceptionResumed(emu, t, assertions)
          IN /\ Step(Leave(r))
             /\ hist' = Push(hist, Called("ExceptionCallback.return", t, r))
  /\ UNCHANGED <<disk, loader>>

NextFault ==
  \/ CallSetup
  \/ CallCompleteLaunch
  \/ CallExceptionCallback
  \/ FaultReturn
  \/ CallPause(FALSE)
  \/ CallResume(FALSE)
  \/ CallSaveToFile

SpecFault == Init /\ [][NextFault]_vars

(***************************************************************************)
(* SpecWait: one host thread is in WaitUntilExit while another calls       *)
(* RestoreFromFile, each a step at a time.                                 *)
(***************************************************************************)
\* Emulator::WaitUntilExit is called
WaitBegin ==
  /\ Usable
  /\ conc.pcW = "idle"
  /\ conc' = [conc EXCEPT !.pcW = "read"]
  /\ UNCHANGED <<emu, disk, hist, loader>>

\* line 604 and the call of line 605: main_thread_ is read
WaitRead ==
  /\ Usable
  /\ conc.pcW = "read"
  /\ LET m == emu.main_thread_
     IN conc' =
          IF m.tid = NoThread
          THEN [conc EXCEPT !.pcW = "check", !.woke = "none"]
          ELSE [conc EXCEPT
                  !.pcW = "wait",
                  !.waitOn =
                     [tid |-> m.tid,
                      ended |-> IF m.gone # "no" THEN m.gone
                                ELSE IF ~emu.running[m.tid] THEN "exited"
                                ELSE "no"]]
  /\ UNCHANGED <<emu, disk, hist, loader>>

\* line 605: xe::threading::Wait returns when the thread has ended
WaitThread ==
  /\ Usable
  /\ conc.pcW = "wait"
  /\ conc.waitOn.ended # "no"
  /\ conc' = [conc EXCEPT !.pcW = "check", !.woke = conc.waitOn.ended,
                          !.waitOn = [tid |-> NoThread, ended |-> "no"]]
  /\ UNCHANGED <<emu, disk, hist, loader>>

\* line 608
WaitCheck ==
  /\ Usable
  /\ conc.pcW = "check"
  /\ conc' = [conc EXCEPT !.pcW = IF emu.restoring_ THEN "fence" ELSE "exit"]
  /\ UNCHANGED <<emu, disk, hist, loader>>

\* line 609: restore_fence_.Wait() returns once the fence is signalled, and
\* takes the signal
WaitFence ==
  /\ Usable
  /\ conc.pcW = "fence"
  /\ emu.restore_fence_
  /\ emu' = [emu EXCEPT !.restore_fence_ = FALSE]
  /\ conc' = [conc EXCEPT !.pcW = "read"]
  /\ UNCHANGED <<disk, hist, loader>>

\* line 616
WaitExit ==
  /\ Usable
  /\ conc.pcW = "exit"
  /\ conc' = [conc EXCEPT !.pcW = "done", !.exits = @ + 1]
  /\ UNCHANGED <<emu, disk, hist, loader>>

\* the restoring thread goes to pc with the emulator in r; a Restore that
\* has returned goes into hist
RestoreGoes(r, pc) ==
  /\ emu' = (IF pc = "idle" THEN Leave(r) ELSE r)
  /\ conc' = [Observe(conc, emu, r) EXCEPT !.pcR = IF r.crashed THEN "idle"
                                                   ELSE pc]
  /\ hist' = IF pc = "idle" /\ ~r.crashed
             THEN Push(hist, Called("RestoreFromFile", NoThread, r))
             ELSE hist
  /\ UNCHANGED <<disk, loader>>

\* lines 444-449
RestoreStart ==
  /\ Usable
  /\ conc.pcR = "idle"
  /\ disk.exists
  /\ emu' = RestoreMark(emu)
  /\ conc' = [conc EXCEPT !.pcR = "pause"]
  /\ UNCHANGED <<disk, hist, loader>>

\* line 452
RestorePause ==
  /\ Usable
  /\ conc.pcR = "pause"
  /\ RestoreGoes(Pause(emu, NoThread), "terminate")

\* line 453
RestoreTerminate ==
  /\ Usable
  /\ conc.pcR = "terminate"
  /\ RestoreGoes(KernelTerminateTitle(emu), "load")

\* lines 455-494
RestoreLoads ==
  /\ Usable
  /\ conc.pcR = "load"
  /\ \E in \in RestoreInputs :
       LET r == RestoreLoad(emu, disk.bytes, in)
       IN RestoreGoes(r, IF r.ret = "false" THEN "idle" ELSE "resolve")

\* lines 496-506
RestoreResolves ==
  /\ Usable
  /\ conc.pcR = "resolve"
  /\ RestoreGoes(RestoreResolve(emu), "signal")

\* line 508
RestoreSignals ==
  /\ Usable
  /\ conc.pcR = "signal"
  /\ RestoreGoes(FenceSignal(emu), "clear")

\* lines 509-511
RestoreReturns ==
  /\ Usable
  /\ conc.pcR = "clear"
  /\ RestoreGoes(RestoreReturn(emu), "idle")

\* the host thread that calls RestoreFromFile is the one that launches
LaunchTitle == conc.pcR = "idle" /\ CallCompleteLaunch

NextWait ==
  \/ CallSetup
  \/ LaunchTitle
  \/ ExternalFile
  \/ ThreadExit
  \/ WaitBegin
  \/ WaitRead
  \/ WaitThread
  \/ WaitCheck
  \/ WaitFence
  \/ WaitExit
  \/ RestoreStart
  \/ RestorePause
  \/ RestoreTerminate
  \/ RestoreLoads
  \/ RestoreResolves
  \/ RestoreSignals
  \/ RestoreReturns

SpecWait == Init /\ [][NextWait]_vars

(***************************************************************************)
(* SpecModule: one UserModule object and the calls of its load state       *)
(* machine, LoadFromMemory, LoadXexContinue and Unload, in any order.  A   *)
(* module object is given one image: LoadFromMemory is not called again    *)
(* once the object has a translation unit.                                 *)
(***************************************************************************)
emulator == <<emu, disk, hist, conc>>

\* a method is entered: the record of the last call is dropped
Enter(m, op, arg) ==
  [m EXCEPT !.op = op, !.arg = arg, !.calls = @ + 1, !.ret = "none",
            !.trace = <<>>]

CallLoadFromMemory ==
  /\ mod.calls < MaxCalls
  /\ mod.processor_module_ = 0
  /\ \E buf \in Buffers :
       mod' = LoadFromMemory(Enter(mod, "LoadFromMemory", buf), buf)
  /\ UNCHANGED <<emulator, vfs, call, race>>

\* xex_module() is of a module of kModuleFormatXex
CallLoadXexContinue ==
  /\ mod.calls < MaxCalls
  /\ mod.module_format_ # kModuleFormatElf
  /\ \E linkOK \in BOOLEAN :
       mod' = LoadXexContinue(Enter(mod, "LoadXexContinue", NoBuffer), linkOK)
  /\ UNCHANGED <<emulator, vfs, call, race>>

CallUnload ==
  /\ mod.calls < MaxCalls
  /\ \E unloadOK \in BOOLEAN :
       mod' = Unload(Enter(mod, "Unload", NoBuffer), unloadOK)
  /\ UNCHANGED <<emulator, vfs, call, race>>

NextModule ==
  \/ CallLoadFromMemory
  \/ CallLoadXexContinue
  \/ CallUnload

SpecModule == Init /\ [][NextModule]_vars

(***************************************************************************)
(* SpecLookup: one call of GetOptHeader or of GetSection, for every header *)
(* table, key, directory and name of the bounds.                           *)
(***************************************************************************)
InitLookup ==
  /\ InitEmulator
  /\ mod = NewUserModule
  /\ vfs = NoVfs
  /\ race = NoRace
  /\ call \in OptHeaderCalls \cup SectionCalls

CallGetOptHeader ==
  /\ call.fn = "GetOptHeader" /\ ~call.done
  /\ call' = GetOptHeader(call)
  /\ UNCHANGED <<emulator, mod, vfs, race>>

CallGetSection ==
  /\ call.fn = "GetSection" /\ ~call.done
  /\ call' = GetSection(call)
  /\ UNCHANGED <<emulator, mod, vfs, race>>

NextLookup ==
  \/ CallGetOptHeader
  \/ CallGetSection

SpecLookup == InitLookup /\ [][NextLookup]_vars

(***************************************************************************)
(* SpecFile: modules are loaded from files, one UserModule object to a     *)
(* call of LoadFromFile, and update packages are installed between the     *)
(* calls.  mod is the module of the last call.                             *)
(***************************************************************************)
InitFile ==
  /\ InitEmulator
  /\ call = NoCall
  /\ race = NoRace
  /\ mod = NewUserModule
  /\ \E base \in {NoEntry, File(BaseImage), File(ObjectImage),
                  File(LegacyImage)},
        beside \in {NoEntry, File(PatchImage)},
        ps \in {<<>>} \cup {<<p>> : p \in PackagesOf(1)} :
       vfs = [NoVfs EXCEPT !.base = base, !.beside = beside,
                           !.packages = ps]

CallLoadFromFile ==
  /\ vfs.loads < MaxLoads
  /\ \E in \in FileInputs :
       LET s == LoadFromFile(At(Enter(NewUserModule, "LoadFromFile",
                                      NoBuffer), vfs),
                             ModulePath, in)
       IN /\ mod' = s.m
          /\ vfs' = [s.v EXCEPT !.loads = @ + 1]
  /\ UNCHANGED <<emulator, call, race>>

\* a package is installed; the listing has it before or after the others
InstallContent ==
  /\ Len(vfs.packages) < MaxPackages
  /\ \E p \in PackagesOf(Len(vfs.packages) + 1) :
       \/ vfs' = [vfs EXCEPT !.packages = <<p>> \o @]
       \/ vfs' = [vfs EXCEPT !.packages = Append(@, p)]
  /\ UNCHANGED <<emulator, mod, call, race>>

NextFile ==
  \/ CallLoadFromFile
  \/ InstallContent

SpecFile == InitFile /\ [][NextFile]_vars

(***************************************************************************)
(* SpecLaunch: the emulator is set up and paths are launched.  call is the *)
(* last launch: its path, what it found, and the module path it gave to    *)
(* CompleteLaunch.                                                         *)
(***************************************************************************)
CallLaunchPath ==
  /\ Usable
  /\ Len(vfs.devices) < MaxDevices
  /\ NewThreadId(emu) # NoThread
  /\ Cardinality(emu.table \cap GuestIds) < MaxTitleThreads
  /\ \E path \in HostPaths, in \in LaunchPathInputs :
       \* a naked image has no GameInfo.bin to look at
       /\ Variant(path) = "LaunchXexFile"
            => in.gameinfo = "absent" /\ ~in.xna
       /\ LET s == LaunchPath(Launching(emu, vfs), path, in)
          IN /\ Step(Leave(s.e))
             /\ hist' = Push(hist, Called(Variant(path), NoThread, s.e))
             /\ vfs' = s.v
             /\ call' = [fn |-> "LaunchPath", path |-> path, in |-> in,
                         module_path |-> s.module_path]
  /\ UNCHANGED <<disk, mod, race>>

NextLaunch ==
  \/ CallSetup
  \/ CallLaunchPath

SpecLaunch == Init /\ [][NextLaunch]_vars

(***************************************************************************)
(* SpecRace: two threads call Pause at once, a host thread calls Resume    *)
(* and RestoreFromFile, and guest threads take and leave the global        *)
(* critical region, one step of a thread at a time.  The threads are made  *)
(* before the calls start.                                                 *)
(***************************************************************************)
InitRace ==
  /\ conc = Idle
  /\ emu = Constructed
  /\ hist = << [op |-> "Emulator", caller |-> NoThread, ret |-> "none",
                trace |-> <<>>, paused |-> FALSE, inRow |-> FALSE,
                after |-> "-"] >>
  /\ InitLoader
  /\ \E f \in {NoFile, Written(WriteSnapshot(OtherRun(Some(1))))} : disk = f

Quiet == ~race.on

\* the emulator is set up with an audio system
RaceSetup == Quiet /\ CallSetup /\ emu'.audio_system_

RaceLaunch ==
  /\ Quiet
  /\ Usable
  /\ NewThreadId(emu) # NoThread
  /\ Cardinality(emu.table \cap GuestIds) < MaxTitleThreads
  /\ \E in \in CompleteCases :
       LET r == CompleteLaunch(emu, in)
       IN /\ Step(Leave(r))
          /\ hist' = Push(hist, Called("CompleteLaunch", NoThread, r))
  /\ UNCHANGED <<disk, loader>>

RaceThreadCreate == Quiet /\ ThreadCreate

\* the calls start: the first caller of Pause is a host thread, the second
\* a host thread or a guest thread that runs (the one the fault handler
\* runs on)
RaceStart ==
  /\ Quiet
  /\ Usable
  /\ emu.table \cap GuestIds # {}
  /\ \E c \in Callers :
       race' = [NoRace EXCEPT !.on = TRUE, !.who[2] = c,
                              !.before = emu.susp]
  /\ UNCHANGED <<emulator, mod, vfs, call>>

InPause(i, pc) ==
  /\ race.on
  /\ ~emu.crashed
  /\ race.pc[i] = pc
  /\ Runs(emu, race.who[i])

PauseEnters(i) ==
  /\ InPause(i, "idle")
  /\ race' = [race EXCEPT !.pc[i] = PauseTest(emu)]
  /\ UNCHANGED <<emulator, mod, vfs, call>>

PauseMarks(i) ==
  /\ InPause(i, "mark")
  /\ emu' = PauseMark(emu)
  /\ race' = [race EXCEPT !.pc[i] = "subsystems"]
  /\ UNCHANGED <<disk, hist, conc, mod, vfs, call>>

PausePausesSubsystems(i) ==
  /\ InPause(i, "subsystems")
  /\ emu' = PauseSubsystems(emu)
  /\ race' = [race EXCEPT !.pc[i] = "suspend"]
  /\ UNCHANGED <<disk, hist, conc, mod, vfs, call>>

\* lines 365-383: the region is held from line 365 to the return
PauseSuspends(i) ==
  /\ InPause(i, "suspend")
  /\ CanAcquire(race.lock)
  /\ emu' = PauseThreads(emu, race.who[i])
  /\ \A t \in ThreadIds : emu'.susp[t] <= MaxSuspend
  /\ race' = [race EXCEPT !.pc[i] = "done"]
  /\ UNCHANGED <<disk, hist, conc, mod, vfs, call>>

\* the first caller calls Resume after its Pause
RaceResume ==
  /\ race.on
  /\ ~emu.crashed
  /\ race.pc[1] = "done"
  /\ race.resumed = "no"
  /\ race.pcR = "idle"
  /\ emu' = Resume(emu)
  /\ race' = [race EXCEPT !.resumed = IF race.pc[2] = "done" THEN "after"
                                       ELSE "early"]
  /\ UNCHANGED <<disk, hist, conc, mod, vfs, call>>

\* a thread that is not in Pause enters the region
GuestAcquire ==
  /\ race.on
  /\ ~emu.crashed
  /\ race.taken < MaxGuestLocks
  /\ \E t \in emu.table :
       /\ Runs(emu, t)
       /\ \A i \in Pausers :
            race.who[i] = t => race.pc[i] \in {"idle", "done"}
       /\ CanAcquire(race.lock)
       /\ race' = [race EXCEPT !.lock = Owner(t), !.taken = @ + 1]
  /\ UNCHANGED <<emulator, mod, vfs, call>>

GuestRelease ==
  /\ race.on
  /\ race.lock.held
  /\ race.lock.by # NoThread
  /\ Runs(emu, race.lock.by)
  /\ race' = [race EXCEPT !.lock = NoOwner]
  /\ UNCHANGED <<emulator, mod, vfs, call>>

InRestore(pc) == race.on /\ ~emu.crashed /\ race.pcR = pc

\* lines 444-449
RaceRestoreStart ==
  /\ InRestore("idle")
  /\ disk.exists
  /\ emu' = RestoreMark(emu)
  /\ race' = [race EXCEPT !.pcR = "pause"]
  /\ UNCHANGED <<disk, hist, conc, mod, vfs, call>>

\* line 452: Pause takes the region when it finds the emulator running
RaceRestorePause ==
  /\ InRestore("pause")
  /\ emu.paused_ \/ CanAcquire(race.lock)
  /\ emu' = Pause(emu, NoThread)
  /\ \A t \in ThreadIds : emu'.susp[t] <= MaxSuspend
  /\ race' = [race EXCEPT !.pcR = "terminate"]
  /\ UNCHANGED <<disk, hist, conc, mod, vfs, call>>

\* line 453
RaceRestoreTerminate ==
  /\ InRestore("terminate")
  /\ emu' = KernelTerminateTitle(emu)
  /\ race' = [race EXCEPT !.pcR = "lock"]
  /\ UNCHANGED <<disk, hist, conc, mod, vfs, call>>

\* line 455
RaceRestoreLock ==
  /\ InRestore("lock")
  /\ CanAcquire(race.lock)
  /\ race' = [race EXCEPT !.pcR = "load", !.lock = Owner(NoThread)]
  /\ UNCHANGED <<emulator, mod, vfs, call>>

\* lines 456-511, and the region is left at the return
RaceRestoreLoads ==
  /\ InRestore("load")
  /\ \E in \in RestoreInputs :
       LET r == RestoreLoad(emu, disk.bytes, in)
       IN emu' = IF r.crashed \/ r.ret = "false" THEN r
                 ELSE RestoreReturn(FenceSignal(RestoreResolve(r)))
  /\ race' = [race EXCEPT !.pcR = "done", !.lock = NoOwner]
  /\ UNCHANGED <<disk, hist, conc, mod, vfs, call>>

NextRace ==
  \/ RaceSetup
  \/ RaceLaunch
  \/ RaceThreadCreate
  \/ RaceStart
  \/ \E i \in Pausers : PauseEnters(i)
  \/ \E i \in Pausers : PauseMarks(i)
  \/ \E i \in Pausers : PausePausesSubsystems(i)
  \/ \E i \in Pausers : PauseSuspends(i)
  \/ RaceResume
  \/ GuestAcquire
  \/ GuestRelease
  \/ RaceRestoreStart
  \/ RaceRestorePause
  \/ RaceRestoreTerminate
  \/ RaceRestoreLock
  \/ RaceRestoreLoads

SpecRace == InitRace /\ [][NextRace]_vars

(***************************************************************************)
(* Claims                                                                  *)
(***************************************************************************)
Suspends(tr, t) == CountEv(tr, Ev("Suspend", t))
Resumes(tr, t) == CountEv(tr, Ev("Resume", t))

\* the threads a Pause called by c has to suspend, in the current table
Eligible(c) ==
  {t \in emu.table : t # c /\ can_debugger_suspend(t) /\ emu.running[t]}

\* Pause, Pause, Resume were called in a row on an emulator that ran
DoublePauseResume ==
  /\ Len(hist) = 3
  /\ hist[1].op = "Pause" /\ ~hist[1].paused
  /\ hist[2].op = "Pause"
  /\ hist[3].op = "Resume"
  /\ ~emu.crashed

\* C1: after Pause, Pause, Resume called in a row on a running emulator, the
\* two Pause calls together have suspended every thread eligible for the
\* first call exactly once and no other thread, and have paused graphics and
\* audio exactly once; the Resume has resumed every suspended thread exactly
\* once and no thread twice.
C1_DoublePauseIdempotent ==
  DoublePauseResume =>
    LET both == hist[1].trace \o hist[2].trace
    IN /\ \A t \in ThreadIds :
            Suspends(both, t) =
              IF t \in Eligible(hist[1].caller) THEN 1 ELSE 0
       /\ CountName(both, "graphics.Pause") = 1
       /\ CountName(both, "audio.Pause") = 1
       /\ \A t \in ThreadIds :
            /\ Suspends(both, t) > 0 => Resumes(hist[3].trace, t) = 1
            /\ Resumes(hist[3].trace, t) <= 1

C1_Witness ==
  /\ DoublePauseResume
  /\ hist[1].caller # NoThread
  /\ \E t \in ThreadIds :
       Suspends(hist[1].trace, t) = 1 /\ Resumes(hist[3].trace, t) = 1

\* C2: a Pause that finds the emulator running suspends exactly the threads
\* of the object table that are not the caller, are debugger-suspendable and
\* are running, each once; no other thread receives a suspend.
C2_PauseSuspendsEligible ==
  (Last.op = "Pause" /\ ~Last.paused /\ ~emu.crashed) =>
    \A t \in ThreadIds :
      Suspends(Last.trace, t) = IF t \in Eligible(Last.caller) THEN 1 ELSE 0

C2_Witness ==
  /\ Last.op = "Pause" /\ ~Last.paused /\ ~emu.crashed
  /\ Last.caller \in emu.table
  /\ can_debugger_suspend(Last.caller)
  /\ \E t \in emu.table : Suspends(Last.trace, t) = 1
  /\ \E t \in emu.table : ~can_debugger_suspend(t) /\ emu.running[t]
                           /\ Suspends(Last.trace, t) = 0

\* the last step was a RestoreFromFile call that opened the file
Restored_ == Last.op = "RestoreFromFile" /\ Last.trace # <<>>

Invoked(tr, name) == CountName(tr, name) > 0

\* C3: a Restore of a well-formed snapshot that stores a title id, called
\* on an emulator bound to another title id, returns failure and leaves the
\* emulator, its run/paused state, its threads and every subsystem exactly
\* as they were.
C3_MismatchedRestoreChangesNothing ==
  [][ ( /\ Last'.op = "RestoreFromFile" /\ Last'.trace # <<>>
        /\ Last'.ret # "none"
        /\ disk.marked /\ disk.title.has /\ emu.title_id_.has
        /\ disk.title.val # emu.title_id_.val )
      => (Last'.ret = "false" /\ emu' = emu) ]_vars

\* C4: whenever no Restore call is executing (between the calls of Spec),
\* restoring is false.
C4_RestoringOnlyDuringRestore == ~emu.crashed => ~emu.restoring_

\* C5: when Save has returned, on the failure path as on success, Resume has
\* run: the emulator is not paused.
C5_SaveAlwaysResumes ==
  (Last.op = "SaveToFile" /\ Last.ret # "none") => ~emu.paused_

\* an unpaused machine bound to a title whose only thread is its running
\* main thread
SingleThreaded ==
  /\ ~emu.crashed /\ ~emu.paused_ /\ ~emu.restoring_
  /\ emu.title_id_.has
  /\ \E t \in GuestIds :
       /\ emu.table = {t} /\ emu.main_flag = t
       /\ emu.running[t] /\ emu.susp[t] = 0
       /\ emu.main_thread_ = Ref(t)

NoRestoreFailed(tr) ==
  \A s \in SubNames : CountName(tr, s \o ".Restore failed") = 0

\* C11: a SaveToFile that returns true on an unpaused, single-threaded,
\* title-bound machine, followed by a RestoreFromFile of the file whose
\* subsystem restores all succeed: the Restore returns true, the title id is
\* the one bound before, main_thread_ is the thread of the object table
\* that is flagged main and runs, and the emulator is neither paused nor
\* restoring.
C11_SaveRestoreRoundTrip ==
  [][ ( /\ Last.op = "SaveToFile" /\ Last.ret = "true" /\ ~Last.paused
        /\ SingleThreaded
        /\ Last'.op = "RestoreFromFile" /\ Last'.trace # <<>>
        /\ NoRestoreFailed(Last'.trace) )
      => ( /\ Last'.ret = "true"
           /\ ~emu'.crashed
           /\ emu'.title_id_ = emu.title_id_
           /\ emu'.main_thread_ = Ref(emu'.main_flag)
           /\ emu'.main_flag \in emu'.table
           /\ emu'.running[emu'.main_flag]
           /\ emu'.table = emu.table
           /\ ~emu'.paused_ /\ ~emu'.restoring_ ) ]_vars

C11_Witness ==
  /\ Last.op = "RestoreFromFile" /\ Last.after = "SaveToFile"
  /\ Last.ret = "true" /\ NoRestoreFailed(Last.trace)
  /\ CountName(Last.trace, "memory.Restore") = 1
  /\ SingleThreaded
  /\ emu.title_id_ = disk.title
  /\ emu.sub["kernel"] = Restored

\* how many times the calling thread holds the shared lock after trace tr
LockDepth(tr) == CountName(tr, "lock.acquire") - CountName(tr, "lock.release")

\* a call named in names is made in tr while the lock is held
HeldAtCall(tr, names) ==
  \E i \in 1..Len(tr) :
    tr[i][1] \in names /\ LockDepth(SubSeq(tr, 1, i - 1)) > 0

SaveCalls == {s \o ".Save" : s \in SubNames}

\* C12: in a SaveToFile call that gets to the subsystems, the saving thread
\* holds the shared lock at none of the five subsystem Save calls: the lock
\* Pause took has been released.
C12_SaveSerializesUnlocked ==
  (Last.op = "SaveToFile" /\ CountName(Last.trace, "processor.Save") > 0)
    => ~HeldAtCall(Last.trace, SaveCalls)

C12_Witness ==
  /\ Last.op = "SaveToFile" /\ Last.ret = "true" /\ ~Last.paused
  /\ CountName(Last.trace, "lock.acquire") = 1
  /\ CountName(Last.trace, "Suspend") = 1
  /\ \A c \in SaveCalls : CountName(Last.trace, c) = 1
  /\ ~HeldAtCall(Last.trace, SaveCalls)

\* C13: in no Pause and no Resume call does the emulator call a thread's
\* Suspend or Resume while it holds the shared lock.
C13_NoSuspendUnderLock ==
  Last.op \in {"Pause", "Resume"} =>
    ~HeldAtCall(Last.trace, {"Suspend", "Resume"})

\* C14: a TerminateTitle called with no title id bound returns
\* X_STATUS_UNSUCCESSFUL, makes no call and changes nothing; called with a
\* title id bound it calls the kernel's TerminateTitle once, clears title
\* id, name and version, fires on_terminate once and returns
\* X_STATUS_SUCCESS; a TerminateTitle right after one that succeeded
\* returns X_STATUS_UNSUCCESSFUL.
C14_TerminateTitle ==
  [][ (Last'.op = "TerminateTitle" /\ ~emu'.crashed) =>
        /\ ~emu.title_id_.has =>
             /\ Last'.ret = X_STATUS_UNSUCCESSFUL
             /\ Last'.trace = <<>>
             /\ emu' = emu
        /\ emu.title_id_.has =>
             /\ Last'.ret = X_STATUS_SUCCESS
             /\ CountName(Last'.trace, "kernel.TerminateTitle") = 1
             /\ CountName(Last'.trace, "on_terminate") = 1
             /\ ~emu'.title_id_.has
             /\ emu'.title_name_ = "" /\ emu'.title_version_ = ""
             /\ emu'.table \cap GuestIds = {}
        /\ (Last.op = "TerminateTitle" /\ Last.ret = X_STATUS_SUCCESS) =>
             Last'.ret = X_STATUS_UNSUCCESSFUL ]_vars

C14_Witness ==
  /\ Last.op = "TerminateTitle" /\ Last.ret = X_STATUS_SUCCESS
  /\ CountName(Last.trace, "on_terminate") = 1
  /\ ~emu.title_id_.has /\ emu.title_name_ = ""
  /\ emu.main_thread_.gone = "killed"
  /\ ~emu.crashed

\* the last call was a CompleteLaunch that returned
Launched == Last.op = "CompleteLaunch" /\ ~emu.crashed

\* C15: after a CompleteLaunch that returns a failure status no title id is
\* bound.
C15_FailedLaunchBindsNoTitle ==
  (Launched /\ Last.ret # X_STATUS_SUCCESS) => ~is_title_open(emu)

\* C16: a CompleteLaunch whose LoadUserModule gives no module returns
\* X_STATUS_NOT_FOUND; one whose module loads and whose LaunchModule gives
\* no thread returns X_STATUS_UNSUCCESSFUL; whenever the module loads, the
\* bound title id is the execution-info header's title id, 0 if the module
\* has no such header.
C16_LaunchStatusAndTitle ==
  Launched =>
    LET loaded == EvArg(Last.trace, "kernel.LoadUserModule") = 1
        hdr == EvArg(Last.trace, "module.GetOptHeader")
    IN /\ ~loaded => Last.ret = X_STATUS_NOT_FOUND
       /\ (loaded /\ EvArg(Last.trace, "kernel.LaunchModule") = 0)
            => Last.ret = X_STATUS_UNSUCCESSFUL
       /\ loaded => emu.title_id_ = Some(IF hdr = -1 THEN 0 ELSE hdr)

C16_Witness ==
  /\ Launched /\ Last.ret = X_STATUS_SUCCESS
  /\ EvArg(Last.trace, "module.GetOptHeader") = -1
  /\ emu.title_id_ = Some(0)

\* C17: a CompleteLaunch that returns X_STATUS_SUCCESS has fired on_launch
\* exactly once, with the bound title id and the title name, and has set
\* main_thread_ to the thread LaunchModule made; one that returns a failure
\* status has not fired on_launch and has left main_thread_ as it was.
C17_LaunchNotification ==
  [][ (Last'.op = "CompleteLaunch" /\ ~emu'.crashed) =>
        /\ Last'.ret = X_STATUS_SUCCESS =>
             /\ CountName(Last'.trace, "on_launch") = 1
             /\ EvArg(Last'.trace, "on_launch") = emu'.title_id_.val
             /\ CountName(Last'.trace, "on_launch.title_name") = 1
             /\ EvArg(Last'.trace, "on_launch.title_name") =
                  (IF emu'.title_name_ = "" THEN 0 ELSE 1)
             /\ emu'.main_thread_ =
                  Ref(EvArg(Last'.trace, "kernel.LaunchModule"))
        /\ Last'.ret # X_STATUS_SUCCESS =>
             /\ CountName(Last'.trace, "on_launch") = 0
             /\ emu'.main_thread_ = emu.main_thread_ ]_vars

C17_Witness ==
  /\ Launched /\ Last.ret = X_STATUS_SUCCESS
  /\ CountName(Last.trace, "on_launch") = 1
  /\ EvArg(Last.trace, "on_launch") = 1
  /\ emu.title_name_ # ""
  /\ emu.main_thread_.tid \in emu.table

\* C18: a Setup that returns X_STATUS_SUCCESS has run every bring-up step,
\* up to the loading of the kernel modules: a Setup that stops at a failing
\* step returns a status that is not success.
C18_SetupFailurePropagates ==
  (Last.op = "Setup" /\ Last.ret = X_STATUS_SUCCESS) =>
    CountName(Last.trace, "LoadKernelModules") = 1

\* which of the four cases of the exception routing the reads in tr make
RoutingCase(tr) ==
  LET internal == EvArg(tr, "processor.is_debugger_attached") = 1
      external == EvArg(tr, "debugging.IsDebuggerAttached") = 1
      base == EvArg(tr, "code_cache.execute_base_address")
      size == EvArg(tr, "code_cache.total_size")
      pc == EvArg(tr, "ex.pc")
  IN IF external /\ ~internal THEN 1
     ELSE IF internal THEN 2
     ELSE IF ~(base <= pc /\ pc < base + size) THEN 3
     ELSE 4

\* C19: an ExceptionCallback declines (returns false) and changes nothing
\* when an external debugger is attached and the internal one is not;
\* else returns what the internal debugger returns when that one is
\* attached; else declines and changes nothing when the pc is not in
\* [base, base + size); else handles the guest fault.  Pause is called in
\* the last case only.
C19_ExceptionRouting ==
  [][ (Last'.op = "ExceptionCallback" /\ ~emu'.crashed) =>
        LET tr == Last'.trace
            case == RoutingCase(tr)
        IN /\ case \in {1, 3} => (Last'.ret = "false" /\ emu' = emu)
           /\ case = 2 =>
                /\ CountName(tr, "processor.OnUnhandledException") = 1
                /\ Last'.ret =
                     (IF EvArg(tr, "processor.OnUnhandledException") = 1
                      THEN "true" ELSE "false")
           /\ case # 2 => CountName(tr, "processor.OnUnhandledException") = 0
           /\ (CountName(tr, "Emulator.Pause") = 1) <=> (case = 4)
           /\ case = 4 => (Last'.ret = "blocked" /\ emu'.paused_) ]_vars

C19_Witness ==
  /\ Last.op = "ExceptionCallback" /\ ~emu.crashed
  /\ RoutingCase(Last.trace) = 3
  /\ EvArg(Last.trace, "ex.pc") =
       EvArg(Last.trace, "code_cache.execute_base_address")
         + EvArg(Last.trace, "code_cache.total_size")
  /\ EvArg(Last.trace, "code_cache.total_size") > 0
  /\ Last.caller \in emu.table
  /\ Last.ret = "false"

\* C20: a thread that has suspended itself in the exception handler stays
\* suspended: it never runs on to the end of the handler, whatever Resume
\* is called, and the process is not ended by the handler's assertion.
C20_FaultedThreadStaysSuspended ==
  /\ \A t \in emu.faulted : emu.susp[t] > 0
  /\ Last.op # "ExceptionCallback.return"

\* the main guest thread has ended
MainEnded ==
  LET m == emu.main_thread_
  IN m.tid # NoThread /\ (m.gone # "no" \/ ~emu.running[m.tid])

\* C6: a thread in WaitUntilExit whose wait on the main thread has ended is
\* never left waiting for the restore-completion signal when the main guest
\* thread has ended, every Restore call has returned and no signal is
\* pending; in such a state it waits until another Restore is called,
\* forever if none is.
C6_WaitNeverBlockedOnFence ==
  ~( /\ conc.pcW = "fence"
     /\ conc.woke # "none"
     /\ conc.pcR = "idle"
     /\ MainEnded
     /\ ~emu.restore_fence_
     /\ ~emu.crashed )

\* C7: WaitUntilExit fires the exit notification at most once, and never
\* when what ended its wait was the teardown of the main thread by a
\* Restore.
C7_NoExitFromRestoreTeardown ==
  /\ conc.exits <= 1
  /\ conc.pcW \in {"exit", "done"} => conc.woke # "killed"

\* C8: a Restore that reaches the title check goes on to the subsystem
\* restores exactly when the presence flags of the stored and the bound
\* title id are equal and, both present, the ids are equal; so with no title
\* stored and none bound it goes on.
TitlesAgree(a, b) == a.has = b.has /\ (a.has => a.val = b.val)

C8_TitleCheckAcceptsExactly ==
  (Restored_ /\ Invoked(Last.trace, "title.check")) =>
    (Invoked(Last.trace, "processor.Restore")
       <=> TitlesAgree(disk.title, emu.title_id_))

\* the index of the subsystem whose Restore reported failure, 0 if none did
FailedAt(tr) ==
  IF \E i \in 1..Len(SubSystems) :
       Invoked(tr, SubSystems[i] \o ".Restore failed")
  THEN CHOOSE i \in 1..Len(SubSystems) :
         Invoked(tr, SubSystems[i] \o ".Restore failed")
  ELSE 0

\* the subsystems whose Restore was invoked, as indices
InvokedSet(tr) ==
  {i \in 1..Len(SubSystems) : Invoked(tr, SubSystems[i] \o ".Restore")}

\* C9: a Restore that finds no marker returns failure and invokes no
\* subsystem restore; when the i-th subsystem restore (processor, graphics,
\* audio, kernel, memory) reports failure, Restore returns failure, exactly
\* the first i subsystem restores were invoked, and the i-1 subsystems
\* restored before it keep their restored state.
C9_RestoreFailsClosedInOrder ==
  (Restored_ /\ ~emu.crashed) =>
    /\ ~disk.marked => (Last.ret = "false" /\ InvokedSet(Last.trace) = {})
    /\ FailedAt(Last.trace) # 0 =>
         /\ Last.ret = "false"
         /\ InvokedSet(Last.trace) = 1..FailedAt(Last.trace)
         /\ \A j \in 1..(FailedAt(Last.trace) - 1) :
              emu.sub[SubSystems[j]] = Restored

C9_Witness ==
  /\ Restored_ /\ ~emu.crashed
  /\ FailedAt(Last.trace) = 3
  /\ emu.sub["processor"] = Restored /\ emu.sub["graphics"] = Restored
  /\ emu.sub["audio"] = Live /\ emu.sub["kernel"] = Live
  /\ emu.sub["memory"] = Live

\* C10: a file Save has written holds the 4-byte marker, the 1-byte
\* presence flag, the 4-byte title id if present, then the blobs of
\* processor, graphics, audio, kernel and memory in this order; and every
\* subsystem Restore that a Restore invokes starts at the offset at which
\* that subsystem's Save started to write the file.
SavedLayout ==
  LET b == disk.bytes
      ti == emu.title_id_
  IN /\ SubSeq(b, 1, 4) = <<86, 65, 83, 88>>
     /\ b[5] = IF ti.has THEN 1 ELSE 0
     /\ ti.has => SubSeq(b, 6, 9) = <<ti.val, 0, 0, 0>>
     /\ disk.pos[SubSystems[1]] = IF ti.has THEN 9 ELSE 5
     /\ \A i \in 1..Len(SubSystems) :
          b[disk.pos[SubSystems[i]] + 1] = SubTag(SubSystems[i])
     /\ \A i \in 1..(Len(SubSystems) - 1) :
          disk.pos[SubSystems[i]] < disk.pos[SubSystems[i + 1]]

C10_SaveRestoreSameOrder ==
  /\ (Last.op = "SaveToFile" /\ Last.ret = "true") => SavedLayout
  /\ Restored_ =>
       \A s \in SubNames :
         Invoked(Last.trace, s \o ".Restore") =>
           EvArg(Last.trace, s \o ".Restore") = disk.pos[s]

C10_Witness ==
  /\ Restored_ /\ Last.ret = "true"
  /\ disk.title.has
  /\ InvokedSet(Last.trace) = 1..Len(SubSystems)
  /\ EvArg(Last.trace, "memory.Restore") = disk.pos["memory"]
  /\ disk.pos["memory"] > 9

(***************************************************************************)
(* Claims on UserModule                                                    *)
(***************************************************************************)
PatchableMagic(b) == b.magic \in {XEX2, XEX1}
Unsupported(b) == b.magic \notin {XEX2, XEX1, ELF}

\* the module object without the record of the last call
Object(m) ==
  [m EXCEPT !.op = "", !.arg = NoBuffer, !.calls = 0, !.ret = "none",
            !.trace = <<>>]

\* the load stage of a module of the patchable-image format
Stage(m) ==
  IF m.module_format_ # kModuleFormatXex \/ m.processor_module_ = 0
  THEN "none"
  ELSE IF m.guest_xex_header_ = 0 THEN "Headers-Only"
  ELSE IF m.tu.loaded THEN "Linked"
  ELSE "Unloaded"

\* the step is a call of method op
IsCall(op) == mod'.op = op /\ mod'.calls = mod.calls + 1

\* C21: LoadFromMemory of a buffer that starts with one of the two
\* patchable-image magics and whose headers parse returns pending, never
\* success, and leaves the module Headers-Only (no guest copy of the
\* header, no cached entry point), be the image a base image or a patch.
C21_PatchablePending ==
  (mod.op = "LoadFromMemory" /\ PatchableMagic(mod.arg) /\ mod.arg.parses)
    => /\ mod.ret = X_STATUS_PENDING
       /\ Stage(mod) = "Headers-Only"
       /\ mod.entry_point_ = 0

\* C22: LoadFromMemory of a generic-object-image buffer that loads returns
\* success in that one call, with the entry point the object file declares,
\* a stack size of 1 MiB, the library flag false and the module registered
\* with the processor.
C22_ElfLoadsInOneCall ==
  (mod.op = "LoadFromMemory" /\ mod.arg.magic = ELF /\ mod.arg.parses)
    => /\ mod.ret = X_STATUS_SUCCESS
       /\ mod.module_format_ = kModuleFormatElf
       /\ mod.entry_point_ = mod.arg.entry
       /\ mod.stack_size_ = 1048576
       /\ ~mod.is_dll_module_
       /\ mod.registered /\ mod.processor_module_ # 0
       /\ CountEv(mod.trace, Ev("processor.AddModule", 1)) = 1

C22_Witness ==
  /\ mod.op = "LoadFromMemory" /\ mod.arg.magic = ELF /\ mod.arg.parses
  /\ mod.arg.entry = MaxEntry
  /\ mod.ret = X_STATUS_SUCCESS

\* C23: LoadFromMemory tells its two unsupported formats apart: a buffer
\* that starts with the 2-byte legacy-executable magic fails as not
\* implemented, a buffer with any other unknown magic fails with another
\* status; both leave the format tag and the registration as they were.
C23_UnsupportedFormats ==
  [][ (IsCall("LoadFromMemory") /\ Unsupported(mod'.arg))
        => /\ mod'.module_format_ = mod.module_format_
           /\ mod'.registered = mod.registered
           /\ mod'.processor_module_ = mod.processor_module_
           /\ IF Magic16(mod'.arg.magic) = MZ
              THEN mod'.ret = X_STATUS_NOT_IMPLEMENTED
              ELSE mod'.ret \notin {X_STATUS_NOT_IMPLEMENTED,
                                    X_STATUS_SUCCESS, X_STATUS_PENDING}
    ]_vars

\* C24: LoadXexContinue fails on a module without a translation unit; on a
\* Linked module it returns success and does nothing (no link, no copy of
\* the header, no load hook); when the link step fails the module stays
\* Headers-Only; and no other step takes a module from Headers-Only to
\* Linked.
C24_ContinueLoad ==
  [][ /\ IsCall("LoadXexContinue") =>
           /\ mod.processor_module_ = 0 =>
                 /\ mod'.ret = X_STATUS_UNSUCCESSFUL
                 /\ Object(mod') = Object(mod)
           /\ Stage(mod) = "Linked" =>
                 /\ mod'.ret = X_STATUS_SUCCESS
                 /\ mod'.trace = <<>>
                 /\ Object(mod') = Object(mod)
           /\ (/\ Stage(mod) = "Headers-Only"
               /\ CountEv(mod'.trace, Ev("XexModule.LoadContinue", 0)) > 0)
                 => /\ mod'.ret = X_STATUS_UNSUCCESSFUL
                    /\ Object(mod') = Object(mod)
      /\ (Stage(mod) = "Headers-Only" /\ Stage(mod') = "Linked")
           => /\ IsCall("LoadXexContinue")
              /\ mod'.ret = X_STATUS_SUCCESS
              /\ mod'.on_load = mod.on_load + 1
    ]_vars

\* LoadXexContinue is called again on a Linked module
C24_Witness ==
  /\ mod.op = "LoadXexContinue" /\ mod.ret = X_STATUS_SUCCESS
  /\ mod.trace = <<>>
  /\ Stage(mod) = "Linked"

\* C28: Unload of a patchable-image module that was never linked or is
\* unloaded already returns success and does nothing (the translation
\* unit is not asked, the hook does not fire); of any other it asks the
\* translation unit once, returns success exactly when that succeeds and
\* fires the unload hook only then; the hook never fires more often than
\* the module was loaded.
C28_Unload ==
  [][ /\ (IsCall("Unload") /\ mod.module_format_ = kModuleFormatXex) =>
           IF Stage(mod) # "Linked"
           THEN /\ mod'.ret = X_STATUS_SUCCESS
                /\ mod'.trace = <<>>
                /\ Object(mod') = Object(mod)
           ELSE /\ CountName(mod'.trace, "XexModule.Unload") = 1
                /\ mod'.ret = X_STATUS_SUCCESS
                     <=> CountEv(mod'.trace, Ev("XexModule.Unload", 1)) = 1
                /\ mod'.ret \in {X_STATUS_SUCCESS, X_STATUS_UNSUCCESSFUL}
                /\ mod'.on_unload = mod.on_unload
                     + (IF mod'.ret = X_STATUS_SUCCESS THEN 1 ELSE 0)
      /\ mod'.on_unload <= mod'.on_load
    ]_vars

\* Unload is called again after an Unload that went through
C28_Witness ==
  /\ mod.op = "Unload" /\ mod.ret = X_STATUS_SUCCESS /\ mod.trace = <<>>
  /\ Stage(mod) = "Unloaded" /\ mod.on_unload = 1

\* the entries of the header table with the key of the call, by position
Matches(c) ==
  {i \in 1..Len(c.header.headers) : c.header.headers[i].key = c.key}

Lowest(S) == CHOOSE i \in S : \A j \in S : i <= j

\* C27: the header lookup takes the first entry whose key is the key asked
\* for and reads it by the low byte of the key: 0x00 gives the stored word,
\* 0x01 the guest address of the slot that holds the word, any other the
\* guest address of the header plus the entry's offset; with no such entry
\* it returns not-found and sets the output to 0.
C27_HeaderLookup ==
  (call.fn = "GetOptHeader" /\ call.done) =>
    IF Matches(call) = {}
    THEN call.ret = X_STATUS_NOT_FOUND /\ call.out = U32(0)
    ELSE LET i == Lowest(Matches(call))
             entry == call.header.headers[i]
             subtype == entry.key % 256
         IN /\ call.ret = X_STATUS_SUCCESS
            /\ subtype = 0 => call.out = entry.value
            /\ subtype = 1 =>
                 call.out = Add32(call.header.base, U32(24 + 8 * (i - 1) + 4))
            /\ subtype \notin {0, 1} =>
                 call.out = Add32(call.header.base, entry.value)

\* two entries have the key, with different words; the subtype is 0x01
C27_Witness ==
  /\ call.fn = "GetOptHeader" /\ call.done
  /\ Cardinality(Matches(call)) = 2
  /\ call.header.headers[1].value # call.header.headers[2].value
  /\ call.key % 256 = 1
  /\ call.ret = X_STATUS_SUCCESS

\* the name of the call is none of the entries the directory declares
Missing(c) ==
  \/ ~c.dir.present
  \/ \A i \in 1..Declared(c.dir) : c.dir.mem[i].name # c.name

\* C29: GetSection of a name that is not in the resource directory returns
\* not-found, writes neither output and reads no entry at or after the
\* number of entries the directory declares, whatever size the directory
\* declares, a size below the 4 bytes of the size field included; without
\* a directory it returns not-found too.
C29_MissingSection ==
  (call.fn = "GetSection" /\ call.done /\ Missing(call)) =>
    /\ call.ret = X_STATUS_NOT_FOUND
    /\ call.out_section_data = OutBefore
    /\ call.out_section_size = OutBefore
    /\ ~call.fault
    /\ call.reads <= Declared(call.dir)

\* the place of the first event of the name in the trace, 0 if there is none
RECURSIVE Place(_, _)
Place(tr, name) ==
  IF tr = <<>> THEN 0
  ELSE IF Head(tr)[1] = name THEN 1
  ELSE IF Place(Tail(tr), name) = 0 THEN 0
  ELSE 1 + Place(Tail(tr), name)

\* the place of the last event of the name in the trace, 0 if there is none
LastPlace(tr, name) ==
  LET at == {i \in 1..Len(tr) : tr[i][1] = name}
  IN IF at = {} THEN 0 ELSE CHOOSE i \in at : \A j \in at : j <= i

\* the last call was LoadFromFile of a patchable image, patches are applied
Discovers == mod.op = "LoadFromFile" /\ Invoked(mod.trace, "TryMountUpdatePackage")

\* one of the two lookups of the patch file found a file
PatchFound(tr) ==
  \/ CountEv(tr, Ev("ResolvePath update", 1)) > 0
  \/ CountEv(tr, Ev("ResolvePath beside", 1)) > 0

\* C25: in LoadFromFile of a patchable image (with patches applied at all)
\* LoadXexContinue runs at most once, and only after the mount of an update
\* package was tried, the patch file was looked up and a patch file that
\* was found has been applied with success; no patch is applied to the
\* module after its LoadXexContinue.
C25_ContinueAfterPatch ==
  Discovers =>
    LET tr == mod.trace
        at == Place(tr, "LoadXexContinue")
    IN /\ CountName(tr, "LoadXexContinue") <= 1
       /\ at > 0 =>
            /\ Place(tr, "TryMountUpdatePackage") \in 1..(at - 1)
            /\ Place(tr, "ResolvePath update") \in 1..(at - 1)
            /\ LastPlace(tr, "ResolvePath beside") < at
            /\ PatchFound(tr) =>
                 /\ CountEv(tr, Ev("ApplyPatch", 0)) = 1
                 /\ mod.tu.patched
            /\ LastPlace(tr, "ApplyPatch") < at

\* C26: when a patch file is found for the module and loading it or
\* applying it fails, LoadFromFile returns a failure and LoadXexContinue is
\* not run on the module; the module is loaded without a patch only when
\* no patch file was found.
C26_PatchFailureIsFatal ==
  Discovers =>
    LET tr == mod.trace
        failed == \/ Invoked(tr, "XELOGE Failed to load XEX patch")
                  \/ CountEv(tr, Ev("ApplyPatch", 1)) > 0
    IN /\ failed => /\ mod.ret = X_STATUS_UNSUCCESSFUL
                    /\ ~Invoked(tr, "LoadXexContinue")
       /\ (Invoked(tr, "LoadXexContinue") /\ ~mod.tu.patched)
            => ~PatchFound(tr)

\* the package the loop of the resolver stops at with a patch that is
\* applicable, 0 if it stops at none
RECURSIVE Selected(_)
Selected(ps) ==
  IF ps = <<>> THEN 0
  ELSE IF Head(ps).where = "none" \/ Head(ps).kind = "noopen"
  THEN Selected(Tail(ps))
  ELSE IF Head(ps).kind = "noread" THEN 0
  ELSE IF Head(ps).kind = "applicable" THEN Head(ps).id
  ELSE Selected(Tail(ps))

\* what TryMountUpdatePackage returned in the last call of LoadFromFile
Returned == EvArg(mod.trace, "TryMountUpdatePackage returns")

\* the packages the resolver opened in the last call, and the closes
Opened == CountName(mod.trace, "OpenContent")
Closed == CountName(mod.trace, "CloseContent")

\* C31: TryMountUpdatePackage returns true only if a package with an
\* applicable patch is open under the update root when it returns, and
\* false only if no package is open there; every package it opened and
\* did not return true for has been closed.
C31_ResolverResult ==
  Discovers =>
    /\ Returned = 1 =>
         /\ vfs.bound # {}
         /\ Bound(vfs).kind = "applicable"
         /\ Bound(vfs).where # "none"
         /\ Closed = Opened - 1
    /\ Returned = 0 =>
         /\ vfs.bound = {}
         /\ Closed = Opened

\* the resolver examined the package: it tried to open it
Examined(tr, p) ==
  CountEv(tr, Ev("OpenContent", p.id))
    + CountEv(tr, Ev("OpenContent failed", p.id)) > 0

\* a step of the examination of the package fails
FailsAtStep(p) == p.kind # "applicable" \/ p.where = "none"

\* C32: when a step of the examination of a candidate package fails (the
\* package does not open, the patch file is not in it, does not open or
\* read, its headers do not load, it is not applicable), the package is
\* not left open and the next candidate of the listing is examined too.
C32_FailureKeepsSearching ==
  [][ (/\ vfs'.loads = vfs.loads + 1
       /\ Invoked(mod'.trace, "TryMountUpdatePackage"))
        => \A i \in 1..Len(vfs.packages) :
             (Examined(mod'.trace, vfs.packages[i])
                /\ FailsAtStep(vfs.packages[i]))
               => /\ vfs.packages[i].id \notin vfs'.bound
                  /\ i < Len(vfs.packages)
                       => Examined(mod'.trace, vfs.packages[i + 1])
    ]_vars

\* C35: when the patch file is not at the update root and a file is there
\* next to the image (the path of the module with "p" added), that file is
\* loaded as a patch module, and LoadXexContinue runs on the module only
\* after the patch has been applied to it.
C35_BesideFallback ==
  (/\ Discovers
   /\ CountEv(mod.trace, Ev("ResolvePath update", 0)) > 0
   /\ CountEv(mod.trace, Ev("ResolvePath beside", 1)) > 0)
    => /\ Invoked(mod.trace, "patch: Open")
       /\ Invoked(mod.trace, "LoadXexContinue")
            => /\ mod.tu.patched
               /\ Place(mod.trace, "ApplyPatch")
                    \in 1..(Place(mod.trace, "LoadXexContinue") - 1)

\* C30: there is never more than one binding of the update root, and when
\* the resolver is invoked and a package with an applicable patch is there
\* for it, the binding it leaves is that package's: of two resolutions with
\* different applicable packages, the binding of the second.
C30_OneBindingTheLatest ==
  [][ /\ Cardinality(vfs'.bound) <= 1
      /\ (/\ vfs'.loads = vfs.loads + 1
          /\ Invoked(mod'.trace, "TryMountUpdatePackage")
          /\ Selected(vfs.packages) # 0)
           => vfs'.bound = {Selected(vfs.packages)}
    ]_vars


(***************************************************************************)
(* Claims on the launch of a path                                          *)
(***************************************************************************)
\* the step is a launch: the emulator was set up before it
Launches == emu.setup_result = X_STATUS_SUCCESS /\ call'.fn = "LaunchPath"

\* the mount point of a launch variant
MountPoint(variant) ==
  IF variant = "LaunchXexFile" THEN "\\Device\\Harddisk0\\Partition0"
  ELSE "\\Device\\Cdrom0"

Resolves ==
  /\ call.fn = "LaunchPath"
  /\ Last.op \in {"LaunchDiscImage", "LaunchStfsContainer"}
  /\ call.in.initOK /\ call.in.registerOK

\* C34: FindLaunchModule returns game:\<override> when the cvar
\* launch_module is set, whatever GameInfo.bin is; with no override it
\* returns game:\default.xex when GameInfo.bin is not at the root of the
\* mount, cannot be opened, cannot be read or is not valid.
C34_FindLaunchModule ==
  Resolves =>
    /\ call.in.launch_module # ""
         => call.module_path = "game:\\" \o call.in.launch_module
    /\ (call.in.launch_module = "" /\ call.in.gameinfo # "valid")
         => call.module_path = "game:\\default.xex"

\* a disc image with no GameInfo.bin was launched with no override
C34_Witness ==
  /\ Resolves
  /\ Last.op = "LaunchDiscImage"
  /\ call.in.launch_module = ""
  /\ call.in.gameinfo = "absent"
  /\ call.module_path = "game:\\default.xex"


(***************************************************************************)
(* Claims on Pause, Resume, SaveToFile and RestoreFromFile                 *)
(***************************************************************************)
\* the calls of the last step that go through audio_system_
AudioCalls(tr) ==
  CountName(tr, "nullderef audio_system_") + CountName(tr, "nullderef audio")
    + CountName(tr, "audio.Pause")
    + CountName(tr, "audio.Resume") + CountName(tr, "audio.Save")
    + CountName(tr, "audio.Restore")

\* C36: when Setup succeeded without an audio factory, so that there is no
\* audio system, no call of Pause, Resume, SaveToFile or RestoreFromFile
\* makes a call through audio_system_.
C36_NoCallOnAbsentAudio ==
  (/\ emu.setup_result = X_STATUS_SUCCESS
   /\ ~emu.audio_system_
   /\ Last.op \in {"Pause", "Resume", "SaveToFile", "RestoreFromFile"})
    => AudioCalls(Last.trace) = 0


\* the last two calls are a Pause that found the emulator running and the
\* Resume that follows it with nothing in between
PauseThenResume ==
  /\ Len(hist) >= 2
  /\ hist[Len(hist) - 1].op = "Pause"
  /\ ~hist[Len(hist) - 1].paused
  /\ Last.op = "Resume"
  /\ ~emu.crashed

\* C37: of a Pause and the Resume that follows it, whichever threads call
\* them, every guest thread gets as many host resumes from the Resume as it
\* got host suspends from the Pause, so that its suspend count is what it
\* was; a guest thread that called Pause, which Pause skipped, gets no
\* resume.
C37_PauseResumeNeutral ==
  PauseThenResume =>
    \A t \in GuestIds :
      Resumes(Last.trace, t) = Suspends(hist[Len(hist) - 1].trace, t)


\* C38: SaveToFile leaves the run state as it found it: an emulator that
\* was paused is paused when the call returns, with the same host suspend
\* counts, and an emulator that ran is not paused when the call returns.
C38_SaveKeepsRunState ==
  [][ (Last'.op = "SaveToFile" /\ Last'.ret # "none" /\ ~emu'.crashed)
        => /\ emu'.paused_ = emu.paused_
           /\ emu.paused_ => emu'.susp = emu.susp
    ]_vars


(***************************************************************************)
(* Claims on threads that call at once                                     *)
(***************************************************************************)
\* two calls of Pause have been entered and RestoreFromFile has not
TwoPauses ==
  /\ race.on
  /\ race.pcR = "idle"
  /\ \A i \in Pausers : race.pc[i] # "idle"

\* C39: when two threads are in Pause at once, under every interleaving
\* graphics and audio are paused once and no thread is suspended more than
\* once by the two calls, and the Resume that is called after both have
\* returned leaves every host suspend count as it was before them.
C39_ConcurrentPauseOnce ==
  TwoPauses =>
    /\ race.resumed = "no" =>
         /\ CountName(emu.trace, "graphics.Pause") <= 1
         /\ CountName(emu.trace, "audio.Pause") <= 1
         /\ \A t \in ThreadIds : Suspends(emu.trace, t) <= 1
    /\ race.resumed = "after" =>
         \A t \in ThreadIds : emu.susp[t] = race.before[t]

\* the threads the calls of Pause have suspended
SuspendedByPause ==
  {t \in emu.table : emu.susp[t] > 0 /\ Suspends(emu.trace, t) > 0}

\* C40: no thread that Pause has suspended holds the global critical
\* region, and when RestoreFromFile, after its Pause, waits for the region
\* at line 455, the thread that holds it is not a suspended one: it can
\* run and leave the region.
C40_SuspendedOutsideLock ==
  race.on =>
    /\ \A t \in SuspendedByPause : race.lock # Owner(t)
    /\ (race.pcR = "lock" /\ race.lock.held)
         => emu.susp[race.lock.by] = 0

\* a guest thread has held the region, Pause has suspended a guest thread
\* and RestoreFromFile has taken the region after its Pause
C40_Witness ==
  /\ race.on
  /\ race.pcR = "load"
  /\ race.lock = Owner(NoThread)
  /\ race.taken > 0
  /\ CountName(emu.trace, "Suspend") > 0
  /\ CountName(emu.trace, "kernel.TerminateTitle") = 1

====
